---- MODULE Spec2Model ----
(***************************************************************************)
(* Model of the backtesting engine of hem455/buybot                        *)
(* (src/backend/backtester/backtester.py) and of the parts of the risk     *)
(* manager it calls (src/backend/risk_manager/risk_manager.py).            *)
(*                                                                         *)
(* Numbers.  The code computes in floats; the model computes the same      *)
(* expressions exactly, in fixed point.  Rates (slippage percentage, maker *)
(* and taker fee) are multiples of 1/Denom.  A raw close is an integer; a  *)
(* slipped price and a pnl are stored multiplied by Denom; a commission, a *)
(* balance and an equity are stored multiplied by Denom*Denom.             *)
(* An optional value (Python None or a value) is a sequence of length 0    *)
(* or 1.                                                                   *)
(***************************************************************************)
EXTENDS Integers, Sequences, FiniteSets, TLC

\* ------------------------------------------------------------------ bounds
MaxBars == 2
MaxRuns == 2

\* closes a bar may carry
Closes == {100, 110}

\* fixed-point denominator of the rates
Denom == 10
Money == Denom * Denom

\* ------------------------------------------------------- program constants
initial_capital == 1000000
tick_size == 1

\* ------------------------------------------------------------- small helpers
None == <<>>
Some(v) == <<v>>
Abs(x) == IF x < 0 THEN -x ELSE x
Min(a, b) == IF a < b THEN a ELSE b
Last(s) == s[Len(s)]

\* a Python dict with the given items, and a Python value that is no dict
Dict(items) == [dict |-> TRUE, items |-> items]
Scalar(v) == [dict |-> FALSE, value |-> v]

\* self._config = {} of ConfigManager.__init__
NoConfig == Dict(<<>>)

\* Python's round() of the rational a/b (b > 0): nearest integer, ties to even
Round(a, b) ==
    LET q == a \div b
        r == a % b
    IN  IF 2 * r < b THEN q
        ELSE IF 2 * r > b THEN q + 1
        ELSE IF q % 2 = 0 THEN q ELSE q + 1

Signal == {"BUY", "SELL", "HOLD", "CLOSE_LONG", "CLOSE_SHORT", "CLOSE_ALL"}

\* the OHLCV frames the store may hold for the requested window: the index is
\* the timestamp, strictly increasing; the empty frame is the missing file
RECURSIVE Frames(_)
Frames(n) ==
    IF n = 0 THEN {<<>>}
    ELSE LET shorter == Frames(n - 1)
         IN  shorter \cup
             {Append(f, [timestamp |-> Len(f) + 1, close |-> c]) :
                 f \in {g \in shorter : Len(g) = n - 1}, c \in Closes}

\* ------------------------------------------------------------ configuration
SlippageConfigs ==
    {[enabled |-> FALSE, type |-> "percentage", percentage |-> 1, amount |-> 5],
     [enabled |-> TRUE,  type |-> "percentage", percentage |-> 1, amount |-> 5],
     [enabled |-> TRUE,  type |-> "fixed",      percentage |-> 1, amount |-> 5],
     [enabled |-> TRUE,  type |-> "tiered",     percentage |-> 1, amount |-> 5]}

CommissionConfigs ==
    {[type |-> t, maker_fee |-> 1, taker_fee |-> 2, fixed_fee |-> 3] :
        t \in {"percentage", "fixed", "tiered"}}

RiskConfigs ==
    {[position_sizing |-> [method |-> "fixed_amount", risk_per_trade |-> r,
                           max_position_size |-> 2],
      min_order_size |-> 1,
      stop_loss |-> [enabled |-> TRUE, method |-> "fixed_amount",
                     percentage |-> 1, atr_multiplier |-> 2,
                     fixed_amount |-> 5],
      take_profit |-> [enabled |-> TRUE, method |-> "risk_reward",
                       risk_reward_ratio |-> 1, percentage |-> 1,
                       fixed_amount |-> 5]] : r \in {0, 1, 2}}

VARIABLES
    slippage_config,    \* Backtester.slippage_config
    commission_config,  \* Backtester.commission_config
    risk_config,        \* RiskManager.risk_config and trading_config
    store,              \* what DataStorage holds for the requested window
    strategy_id,        \* the strategy_id every call is made with
    strategy,           \* the deterministic Strategy: decisions taken so far
    trades,             \* Backtester.trades
    equity_curve,       \* Backtester.equity_curve
    positions,          \* Backtester.positions
    signals,            \* Backtester.signals
    pc,                 \* where run_backtest is: idle, loop, returned, raised
    df,                 \* run_backtest's local df
    i,                  \* run_backtest's loop index
    account_balance,    \* run_backtest's local account_balance
    position,           \* run_backtest's local position
    loaded,             \* load_strategy has been called in this call
    current_df,         \* the view handed to the last generate_signal call
    signal,             \* what the last generate_signal call returned
    outcomes,           \* one entry per finished call: a result or an error
    args,               \* the arguments of a function called on its own
    ret,                \* what that function returned
    calls,              \* the locals of two run_backtest calls in flight
    logs,               \* the logs of the instances those calls run on
    shared,             \* whether those calls run on one instance
    _config             \* ConfigManager._config

vars == <<slippage_config, commission_config, risk_config, store,
          strategy_id, strategy,
          trades, equity_curve, positions, signals, pc, df, i,
          account_balance, position, loaded, current_df, signal, outcomes,
          args, ret, calls, logs, shared, _config>>

\* one run_backtest call at a time, on one instance
sequential == <<trades, equity_curve, positions, signals, pc, df, i,
                account_balance, position, loaded, current_df, signal,
                outcomes, strategy>>

\* a function called on its own
function == <<args, ret, _config>>

\* two run_backtest calls at a time
concurrent == <<calls, logs, shared>>

config == <<slippage_config, commission_config, risk_config, store,
            strategy_id>>

\* ------------------------------------------------------------- risk manager
\* RiskManager.calculate_stop_loss: price and result are raw prices
calculate_stop_loss(sig, entry_price, atr) ==
    LET sl_config == risk_config.stop_loss
        method == sl_config.method
        known == \/ method = "percentage"
                 \/ method = "atr" /\ atr # None /\ atr # <<0>>
                 \/ method = "fixed_amount"
        \* times Denom
        stop_loss ==
            IF method = "percentage"
            THEN IF sig = "BUY"
                 THEN entry_price * (Denom - sl_config.percentage)
                 ELSE entry_price * (Denom + sl_config.percentage)
            ELSE IF method = "atr"
            THEN IF sig = "BUY"
                 THEN (entry_price - atr[1] * sl_config.atr_multiplier) * Denom
                 ELSE (entry_price + atr[1] * sl_config.atr_multiplier) * Denom
            ELSE IF sig = "BUY"
                 THEN (entry_price - sl_config.fixed_amount) * Denom
                 ELSE (entry_price + sl_config.fixed_amount) * Denom
    IN  IF ~sl_config.enabled THEN None
        ELSE IF ~known THEN None
        ELSE Some(Round(stop_loss, Denom * tick_size) * tick_size)

\* RiskManager.calculate_take_profit: entry_price is times Denom (it is the
\* slipped price), stop_loss_price an optional raw price, the result raw
calculate_take_profit(sig, entry_price, stop_loss_price) ==
    LET tp_config == risk_config.take_profit
        method == tp_config.method
        has_stop == stop_loss_price # None /\ stop_loss_price # <<0>>
        known == \/ method = "risk_reward" /\ has_stop
                 \/ method = "percentage"
                 \/ method = "fixed_amount"
        risk == Abs(entry_price - stop_loss_price[1] * Denom)
        \* times Denom * Denom in the percentage method, times Denom otherwise
        take_profit ==
            IF method = "risk_reward"
            THEN IF sig = "BUY"
                 THEN entry_price + risk * tp_config.risk_reward_ratio
                 ELSE entry_price - risk * tp_config.risk_reward_ratio
            ELSE IF method = "percentage"
            THEN IF sig = "BUY"
                 THEN entry_price * (Denom + tp_config.percentage)
                 ELSE entry_price * (Denom - tp_config.percentage)
            ELSE IF sig = "BUY"
                 THEN entry_price + tp_config.fixed_amount * Denom
                 ELSE entry_price - tp_config.fixed_amount * Denom
        scale == IF method = "percentage" THEN Money ELSE Denom
    IN  IF ~tp_config.enabled THEN None
        ELSE IF ~known THEN None
        ELSE Some(Round(take_profit, scale * tick_size) * tick_size)

\* RiskManager.calculate_position_size for the sizing methods whose size is
\* set by the configuration ('fixed_amount', and an unknown method, which
\* leaves the size 0).  Sizes are whole units, so the final rounding to the
\* size tick changes nothing.
calculate_position_size(sig, balance, current_price, stop_loss_price) ==
    LET sizing_config == risk_config.position_sizing
        raw == IF sizing_config.method = "fixed_amount"
               THEN sizing_config.risk_per_trade
               ELSE 0
        position_size == Min(raw, sizing_config.max_position_size)
    IN  IF sig \notin {"BUY", "SELL"} THEN 0
        ELSE IF position_size < risk_config.min_order_size THEN 0
        ELSE position_size

\* ---------------------------------------------------- trade execution model
\* the slippage as it would be if the two directions were exchanged
_apply_slippage_Reversed(price, sig) ==
    IF ~slippage_config.enabled THEN price * Denom
    ELSE IF slippage_config.type = "percentage"
    THEN IF sig \in {"BUY", "CLOSE_SHORT"}
         THEN price * (Denom - slippage_config.percentage)
         ELSE price * (Denom + slippage_config.percentage)
    ELSE IF slippage_config.type = "fixed"
    THEN IF sig \in {"BUY", "CLOSE_SHORT"}
         THEN (price - slippage_config.amount) * Denom
         ELSE (price + slippage_config.amount) * Denom
    ELSE price * Denom

\* Backtester._apply_slippage: price is a raw close, the result times Denom
_apply_slippage(price, sig) ==
    IF ~slippage_config.enabled THEN price * Denom
    ELSE IF slippage_config.type = "percentage"
    THEN IF sig \in {"BUY", "CLOSE_SHORT"}
         THEN price * (Denom + slippage_config.percentage)
         ELSE price * (Denom - slippage_config.percentage)
    ELSE IF slippage_config.type = "fixed"
    THEN IF sig \in {"BUY", "CLOSE_SHORT"}
         THEN (price + slippage_config.amount) * Denom
         ELSE (price - slippage_config.amount) * Denom
    ELSE price * Denom

\* the commission as it would be if every trade were charged the taker rate
_calculate_commission_AlwaysTaker(value, is_maker) ==
    IF commission_config.type = "percentage"
    THEN value * commission_config.taker_fee
    ELSE IF commission_config.type = "fixed"
    THEN commission_config.fixed_fee * Money
    ELSE 0

\* the commission as it would be if every trade were charged the maker rate
_calculate_commission_AlwaysMaker(value, is_maker) ==
    IF commission_config.type = "percentage"
    THEN value * commission_config.maker_fee
    ELSE IF commission_config.type = "fixed"
    THEN commission_config.fixed_fee * Money
    ELSE 0

\* Backtester._calculate_commission: value is times Denom, the result times
\* Denom * Denom
_calculate_commission(value, is_maker) ==
    IF commission_config.type = "percentage"
    THEN LET rate == IF is_maker THEN commission_config.maker_fee
                                  ELSE commission_config.taker_fee
         IN  value * rate
    ELSE IF commission_config.type = "fixed"
    THEN commission_config.fixed_fee * Money
    ELSE 0

\* Backtester._close_position
_close_position(pos, price, timestamp, balance) ==
    LET exit_signal == IF pos.side = "LONG" THEN "SELL" ELSE "BUY"
        exit_price == _apply_slippage(price, exit_signal)
        pnl == IF pos.side = "LONG"
               THEN (exit_price - pos.entry_price) * pos.size
               ELSE (pos.entry_price - exit_price) * pos.size
        commission == _calculate_commission(pos.size * exit_price, FALSE)
        trade == [timestamp |-> timestamp,
                  type |-> "EXIT",
                  side |-> IF pos.side = "LONG" THEN "SELL" ELSE "BUY",
                  price |-> exit_price,
                  size |-> pos.size,
                  value |-> pos.size * exit_price,
                  commission |-> commission,
                  pnl |-> pnl,
                  balance_before |-> balance,
                  balance_after |-> balance + pnl * Denom - commission]
    IN  [executed |-> TRUE,
         trade |-> Some(trade),
         position_closed |-> TRUE,
         new_balance |-> balance + pnl * Denom - commission]

\* the execution as it would be if an entry of any size were executed
_execute_trade_AnySize(sig, price, timestamp, balance, current_position, atr) ==
    LET result == [executed |-> FALSE,
                   trade |-> None,
                   position_opened |-> FALSE,
                   position_closed |-> FALSE,
                   new_position |-> None,
                   new_balance |-> balance]
        stop_loss == calculate_stop_loss(sig, price, atr)
        position_size == calculate_position_size(sig, balance, price, stop_loss)
        entry_price == _apply_slippage(price, sig)
        commission == _calculate_commission(position_size * entry_price, TRUE)
        trade == [timestamp |-> timestamp,
                  type |-> "ENTRY",
                  side |-> IF sig = "BUY" THEN "BUY" ELSE "SELL",
                  price |-> entry_price,
                  size |-> position_size,
                  value |-> position_size * entry_price,
                  commission |-> commission,
                  balance_before |-> balance,
                  balance_after |-> balance - commission]
        new_position == [side |-> IF sig = "BUY" THEN "LONG" ELSE "SHORT",
                         entry_price |-> entry_price,
                         size |-> position_size,
                         entry_time |-> timestamp,
                         stop_loss |-> stop_loss,
                         take_profit |->
                             calculate_take_profit(sig, entry_price, stop_loss)]
        close_result ==
            _close_position(current_position[1], price, timestamp, balance)
    IN  IF sig \in {"BUY", "SELL"}
        THEN [executed |-> TRUE,
              trade |-> Some(trade),
              position_opened |-> TRUE,
              position_closed |-> FALSE,
              new_position |-> Some(new_position),
              new_balance |-> balance - commission]
        ELSE IF sig \in {"CLOSE_LONG", "CLOSE_SHORT", "CLOSE_ALL"}
                /\ current_position # None
        THEN [result EXCEPT !.executed = close_result.executed,
                            !.trade = close_result.trade,
                            !.position_closed = close_result.position_closed,
                            !.new_balance = close_result.new_balance]
        ELSE result

\* the execution as it would be if CLOSE_LONG closed a LONG position only and
\* CLOSE_SHORT a SHORT position only
_execute_trade_MatchingSide(sig, price, timestamp, balance, current_position, atr) ==
    LET result == [executed |-> FALSE,
                   trade |-> None,
                   position_opened |-> FALSE,
                   position_closed |-> FALSE,
                   new_position |-> None,
                   new_balance |-> balance]
        stop_loss == calculate_stop_loss(sig, price, atr)
        position_size == calculate_position_size(sig, balance, price, stop_loss)
        entry_price == _apply_slippage(price, sig)
        commission == _calculate_commission(position_size * entry_price, TRUE)
        trade == [timestamp |-> timestamp,
                  type |-> "ENTRY",
                  side |-> IF sig = "BUY" THEN "BUY" ELSE "SELL",
                  price |-> entry_price,
                  size |-> position_size,
                  value |-> position_size * entry_price,
                  commission |-> commission,
                  balance_before |-> balance,
                  balance_after |-> balance - commission]
        new_position == [side |-> IF sig = "BUY" THEN "LONG" ELSE "SHORT",
                         entry_price |-> entry_price,
                         size |-> position_size,
                         entry_time |-> timestamp,
                         stop_loss |-> stop_loss,
                         take_profit |->
                             calculate_take_profit(sig, entry_price, stop_loss)]
        close_result ==
            _close_position(current_position[1], price, timestamp, balance)
        matching == IF current_position = None THEN FALSE
                    ELSE \/ sig = "CLOSE_ALL"
                         \/ sig = "CLOSE_LONG" /\ current_position[1].side = "LONG"
                         \/ sig = "CLOSE_SHORT" /\ current_position[1].side = "SHORT"
    IN  IF sig \in {"BUY", "SELL"}
        THEN IF position_size > 0
             THEN [executed |-> TRUE,
                   trade |-> Some(trade),
                   position_opened |-> TRUE,
                   position_closed |-> FALSE,
                   new_position |-> Some(new_position),
                   new_balance |-> balance - commission]
             ELSE result
        ELSE IF sig \in {"CLOSE_LONG", "CLOSE_SHORT", "CLOSE_ALL"} /\ matching
        THEN [result EXCEPT !.executed = close_result.executed,
                            !.trade = close_result.trade,
                            !.position_closed = close_result.position_closed,
                            !.new_balance = close_result.new_balance]
        ELSE result

\* Backtester._execute_trade; atr is the last 'atr' of the view, if any
_execute_trade(sig, price, timestamp, balance, current_position, atr) ==
    LET result == [executed |-> FALSE,
                   trade |-> None,
                   position_opened |-> FALSE,
                   position_closed |-> FALSE,
                   new_position |-> None,
                   new_balance |-> balance]
        stop_loss == calculate_stop_loss(sig, price, atr)
        position_size == calculate_position_size(sig, balance, price, stop_loss)
        entry_price == _apply_slippage(price, sig)
        commission == _calculate_commission(position_size * entry_price, TRUE)
        trade == [timestamp |-> timestamp,
                  type |-> "ENTRY",
                  side |-> IF sig = "BUY" THEN "BUY" ELSE "SELL",
                  price |-> entry_price,
                  size |-> position_size,
                  value |-> position_size * entry_price,
                  commission |-> commission,
                  balance_before |-> balance,
                  balance_after |-> balance - commission]
        new_position == [side |-> IF sig = "BUY" THEN "LONG" ELSE "SHORT",
                         entry_price |-> entry_price,
                         size |-> position_size,
                         entry_time |-> timestamp,
                         stop_loss |-> stop_loss,
                         take_profit |->
                             calculate_take_profit(sig, entry_price, stop_loss)]
        close_result ==
            _close_position(current_position[1], price, timestamp, balance)
    IN  IF sig \in {"BUY", "SELL"}
        THEN IF position_size > 0
             THEN [executed |-> TRUE,
                   trade |-> Some(trade),
                   position_opened |-> TRUE,
                   position_closed |-> FALSE,
                   new_position |-> Some(new_position),
                   new_balance |-> balance - commission]
             ELSE result
        ELSE IF sig \in {"CLOSE_LONG", "CLOSE_SHORT", "CLOSE_ALL"}
                /\ current_position # None
        THEN [result EXCEPT !.executed = close_result.executed,
                            !.trade = close_result.trade,
                            !.position_closed = close_result.position_closed,
                            !.new_balance = close_result.new_balance]
        ELSE result

\* ------------------------------------------------------ statistics and result
RECURSIVE SumOf(_, _)
SumOf(s, field) ==
    IF s = <<>> THEN 0 ELSE s[1][field] + SumOf(Tail(s), field)

\* a quotient of the statistics, kept exact as num / den with den > 0; with
\* den = 0 it is what a division by zero leaves: ZeroDivisionError for Python
\* numbers, NaN (num = 0) or an infinity (num # 0) for numpy ones
Ratio(num, den) == [num |-> num, den |-> den]

\* NaN, which the reductions of pandas skip
IsNaN(q) == q.den = 0 /\ q.num = 0

\* the integer 0 where the code reports a quotient as 0
NoRatio == Ratio(0, 1)

\* a / b < c / d for a, c >= 0 and b, d > 0, by Euclid's algorithm: the
\* amounts are too large for the cross products
RECURSIVE FracLess(_, _, _, _)
FracLess(a, b, c, d) ==
    IF a \div b # c \div d THEN a \div b < c \div d
    ELSE IF c % d = 0 THEN FALSE
    ELSE IF a % b = 0 THEN TRUE
    ELSE FracLess(d, c % d, b, a % b)

\* p < q for two quotients of any sign
RatioLess(p, q) ==
    IF p.num < 0
    THEN IF q.num < 0 THEN FracLess(-q.num, q.den, -p.num, p.den) ELSE TRUE
    ELSE IF q.num < 0 THEN FALSE ELSE FracLess(p.num, p.den, q.num, q.den)

RatioEq(p, q) == ~RatioLess(p, q) /\ ~RatioLess(q, p)

\* Series.cummax: the running peak of the equity
RECURSIVE cummax(_)
cummax(s) ==
    IF Len(s) <= 1 THEN s
    ELSE LET peak == cummax(SubSeq(s, 1, Len(s) - 1))
         IN  Append(peak, IF Last(s) > Last(peak) THEN Last(s) ELSE Last(peak))

\* equity_df['drawdown'] of _calculate_statistics
drawdown(equity) ==
    LET peak == cummax(equity)
    IN  [k \in 1..Len(equity) |-> equity[k] - peak[k]]

\* equity_df['drawdown_pct'] of _calculate_statistics: drawdown / peak, row by
\* row, with no test of the peak
drawdown_pct(equity) ==
    LET peak == cummax(equity)
    IN  [k \in 1..Len(equity) |-> Ratio((equity[k] - peak[k]) * 100, peak[k])]

\* Series.min of integers
SeriesMin(s) == CHOOSE x \in {s[k] : k \in 1..Len(s)} :
                    \A k \in 1..Len(s) : x <= s[k]

\* Series.max of integers
SeriesMax(s) == CHOOSE x \in {s[k] : k \in 1..Len(s)} :
                    \A k \in 1..Len(s) : x >= s[k]

\* Series.min of the first k of a series of quotients that are not positive:
\* the first of the least ones, NaN being skipped and -inf being the least
RECURSIVE RatioMinOf(_, _)
RatioMinOf(s, k) ==
    IF k = 1 THEN s[1]
    ELSE LET least == RatioMinOf(s, k - 1)
         IN  IF IsNaN(s[k]) THEN least
             ELSE IF IsNaN(least) THEN s[k]
             ELSE IF least.den = 0 THEN least
             ELSE IF s[k].den = 0 THEN s[k]
             ELSE IF RatioLess(s[k], least) THEN s[k] ELSE least

\* Series.min of quotients
RatioMin(s) == RatioMinOf(s, Len(s))

\* max_drawdown of _calculate_statistics
max_drawdown(equity) ==
    IF equity # <<>> THEN SeriesMin(drawdown(equity)) ELSE 0

\* the reported max_drawdown_pct as it would be without abs()
max_drawdown_pct_Signed(equity) ==
    IF equity # <<>> THEN RatioMin(drawdown_pct(equity)) ELSE NoRatio

\* the reported max_drawdown_pct of _calculate_statistics: abs() of the minimum
max_drawdown_pct(equity) ==
    IF equity # <<>>
    THEN LET m == RatioMin(drawdown_pct(equity)) IN Ratio(Abs(m.num), m.den)
    ELSE NoRatio

\* equity_df['returns'] of _calculate_statistics: pct_change without its
\* leading NaN
pct_change(equity) ==
    [k \in 1..(Len(equity) - 1) |->
        Ratio(equity[k + 1] - equity[k], equity[k])]

\* returns_std > 0: the sample deviation is NaN for one return and 0 for
\* equal returns; a NaN return is skipped and an infinite one makes the
\* deviation NaN
returns_std_positive(equity) ==
    LET returns == pct_change(equity)
        numbers == {k \in 1..(Len(equity) - 1) : ~IsNaN(returns[k])}
    IN  /\ \A k \in numbers : returns[k].den # 0
        /\ \E a, b \in numbers : ~RatioEq(returns[a], returns[b])

\* sharpe_ratio of _calculate_statistics: mean / std * sqrt(252) of the
\* returns when it is computed, and 0 when it is not
sharpe_ratio(equity) ==
    IF Len(equity) > 1 /\ returns_std_positive(equity)
    THEN [computed |-> TRUE, returns |-> pct_change(equity)]
    ELSE [computed |-> FALSE, returns |-> <<>>]

\* the winners as they would be if a trade of pnl 0 were one
WinningTrades_WithZero(exit_trades) == SelectSeq(exit_trades, LAMBDA t : t.pnl >= 0)

\* winning_trades of _calculate_statistics
WinningTrades(exit_trades) == SelectSeq(exit_trades, LAMBDA t : t.pnl > 0)

\* losing_trades of _calculate_statistics
LosingTrades(exit_trades) == SelectSeq(exit_trades, LAMBDA t : t.pnl < 0)

\* the empty statistics as they would be if the balance were zeroed as well
_empty_statistics_AllZero ==
    [final_balance |-> 0,
     total_return |-> 0,
     total_return_pct |-> NoRatio,
     total_trades |-> 0,
     winning_trades |-> 0,
     losing_trades |-> 0,
     win_rate |-> NoRatio,
     profit_factor |-> NoRatio,
     max_drawdown |-> 0,
     max_drawdown_pct |-> NoRatio,
     sharpe_ratio |-> [computed |-> FALSE, returns |-> <<>>],
     average_win |-> NoRatio,
     average_loss |-> NoRatio,
     largest_win |-> 0,
     largest_loss |-> 0,
     total_fees |-> 0]

\* Backtester._empty_statistics
_empty_statistics ==
    [final_balance |-> initial_capital * Money,
     total_return |-> 0,
     total_return_pct |-> NoRatio,
     total_trades |-> 0,
     winning_trades |-> 0,
     losing_trades |-> 0,
     win_rate |-> NoRatio,
     profit_factor |-> NoRatio,
     max_drawdown |-> 0,
     max_drawdown_pct |-> NoRatio,
     sharpe_ratio |-> [computed |-> FALSE, returns |-> <<>>],
     average_win |-> NoRatio,
     average_loss |-> NoRatio,
     largest_win |-> 0,
     largest_loss |-> 0,
     total_fees |-> 0]

\* the logs of the instance the sequential calls are made on
self == [trades |-> trades, equity_curve |-> equity_curve,
         positions |-> positions, signals |-> signals]

\* Backtester._calculate_statistics on the logs of an instance whose
\* initial_capital, times Money, is capital; logs without a trade are those
\* of a run on the initial_capital of the runs
StatisticsOf(this, capital) ==
    LET trades_ == this.trades
        curve == this.equity_curve
        final_balance == IF curve # <<>>
                         THEN Last(curve).balance
                         ELSE capital
        total_return == final_balance - capital
        exit_trades == SelectSeq(trades_, LAMBDA t : t.type = "EXIT")
        winning_trades == WinningTrades(exit_trades)
        losing_trades == LosingTrades(exit_trades)
        total_trades == Len(exit_trades)
        win_count == Len(winning_trades)
        loss_count == Len(losing_trades)
        total_profit == SumOf(winning_trades, "pnl")
        total_loss == Abs(SumOf(losing_trades, "pnl"))
        pnl(s) == [k \in 1..Len(s) |-> s[k].pnl]
        equity == [k \in 1..Len(curve) |-> curve[k].equity]
    IN  IF trades_ = <<>> THEN _empty_statistics
        ELSE [final_balance |-> final_balance,
              total_return |-> total_return,
              total_return_pct |-> Ratio(total_return * 100, capital),
              total_trades |-> total_trades,
              winning_trades |-> win_count,
              losing_trades |-> loss_count,
              win_rate |-> IF total_trades > 0
                           THEN Ratio(win_count * 100, total_trades)
                           ELSE NoRatio,
              profit_factor |-> IF total_loss > 0
                                THEN Ratio(total_profit, total_loss)
                                ELSE NoRatio,
              max_drawdown |-> max_drawdown(equity),
              max_drawdown_pct |-> max_drawdown_pct(equity),
              sharpe_ratio |-> sharpe_ratio(equity),
              average_win |-> IF winning_trades # <<>>
                              THEN Ratio(total_profit, win_count)
                              ELSE NoRatio,
              average_loss |-> IF losing_trades # <<>>
                               THEN Ratio(SumOf(losing_trades, "pnl"), loss_count)
                               ELSE NoRatio,
              largest_win |-> IF winning_trades # <<>>
                              THEN SeriesMax(pnl(winning_trades))
                              ELSE 0,
              largest_loss |-> IF losing_trades # <<>>
                               THEN SeriesMin(pnl(losing_trades))
                               ELSE 0,
              total_fees |-> SumOf(trades_, "commission")]

\* Backtester._calculate_statistics on the logs of an instance with the
\* initial_capital of the runs
Statistics(this) == StatisticsOf(this, initial_capital * Money)

\* Backtester._calculate_statistics
_calculate_statistics == Statistics(self)

\* Backtester._generate_result on the logs of an instance
Result(this) ==
    [summary |-> Statistics(this),
     equity_curve |->
         [timestamps |-> [k \in 1..Len(this.equity_curve) |->
                             this.equity_curve[k].timestamp],
          balance |-> [k \in 1..Len(this.equity_curve) |->
                          this.equity_curve[k].balance],
          equity |-> [k \in 1..Len(this.equity_curve) |->
                         this.equity_curve[k].equity]],
     trades |-> this.trades,
     signals |-> this.signals]

\* Backtester._generate_result
_generate_result == Result(self)

\* ---------------------------------------------------------------- benchmark
\* the significant bits of the model's binary floating point numbers; the
\* doubles of the program carry 53
Precision == 14

Pow2(n) == 2 ^ n

\* the number of binary digits of n > 0
Bits(n) == CHOOSE b \in 1..31 : n < 2 ^ b /\ (b = 1 \/ n >= 2 ^ (b - 1))

\* the float nearest to n / d * 2^e, ties to even, for n / d within
\* 2^(Precision - 2) .. 2^(Precision + 1)
RECURSIVE Nearest(_, _, _)
Nearest(n, d, e) ==
    IF n >= d * Pow2(Precision) THEN Nearest(n, 2 * d, e + 1)
    ELSE IF n < d * Pow2(Precision - 1) THEN Nearest(2 * n, d, e - 1)
    ELSE IF Round(n, d) = Pow2(Precision)
    THEN [m |-> Pow2(Precision - 1), e |-> e + 1]
    ELSE [m |-> Round(n, d), e |-> e]

\* the float nearest to n / d * 2^e for n >= 0 and d > 0, ties to even: the
\* value is m * 2^e with m = 0 or 2^(Precision-1) <= m < 2^Precision
Rounded(n, d, e) ==
    IF n = 0 THEN [m |-> 0, e |-> 0]
    ELSE LET shift == Bits(n) - Bits(d) - Precision
         IN  IF shift >= 0 THEN Nearest(n, d * Pow2(shift), e + shift)
             ELSE Nearest(n * Pow2(-shift), d, e + shift)

\* the float of a quotient of either sign
Float(n, d) ==
    IF n < 0 THEN [Rounded(-n, d, 0) EXCEPT !.m = -@] ELSE Rounded(n, d, 0)

\* what a numpy division by zero leaves, and every operation on it: an
\* infinity or NaN
NonFinite == [m |-> 0, e |-> 0, finite |-> FALSE]

Finite(a) == "finite" \notin DOMAIN a

\* float multiplication
FMul(a, b) ==
    LET r == Rounded(Abs(a.m) * Abs(b.m), 1, a.e + b.e)
    IN  IF ~Finite(a) \/ ~Finite(b) THEN NonFinite
        ELSE IF (a.m < 0) # (b.m < 0) THEN [r EXCEPT !.m = -@] ELSE r

\* float division; x / 0 is an infinity, or NaN for x = 0
FDiv(a, b) ==
    LET r == Rounded(Abs(a.m), Abs(b.m), a.e - b.e)
    IN  IF ~Finite(a) \/ ~Finite(b) THEN NonFinite
        ELSE IF b.m = 0 THEN NonFinite
        ELSE IF (a.m < 0) # (b.m < 0) THEN [r EXCEPT !.m = -@] ELSE r

\* float subtraction: the exact difference, rounded
FSub(a, b) ==
    LET e == IF a.m = 0 THEN b.e ELSE IF b.m = 0 THEN a.e ELSE Min(a.e, b.e)
        x == IF a.m = 0 THEN 0 ELSE a.m * Pow2(a.e - e)
        y == IF b.m = 0 THEN 0 ELSE b.m * Pow2(b.e - e)
    IN  IF ~Finite(a) \/ ~Finite(b) THEN NonFinite
        ELSE IF x >= y THEN Rounded(x - y, 1, e)
        ELSE [Rounded(y - x, 1, e) EXCEPT !.m = -@]

\* a < b for floats; a comparison with NaN is false, and calculate_buy_and_hold
\* compares no infinity
FLess(a, b) ==
    IF ~Finite(a) \/ ~Finite(b) THEN FALSE
    ELSE IF a.m <= 0 /\ b.m <= 0
    THEN /\ a.m # 0
         /\ b.m = 0 \/ a.e > b.e \/ (a.e = b.e /\ a.m < b.m)
    ELSE IF a.m <= 0 \/ b.m <= 0 THEN b.m > 0
    ELSE a.e < b.e \/ (a.e = b.e /\ a.m < b.m)

\* the loop of calculate_buy_and_hold over the closes ("最大ドローダウン計算"),
\* from the k-th close on
RECURSIVE DrawdownLoopFrom(_, _, _, _, _, _)
DrawdownLoopFrom(prices, k, peak_price, max_dd, max_dd_duration, current_dd_duration) ==
    IF k > Len(prices)
    THEN [max_dd |-> max_dd, max_dd_duration |-> max_dd_duration]
    ELSE IF prices[k] > peak_price
    THEN DrawdownLoopFrom(prices, k + 1, prices[k], max_dd, max_dd_duration, 0)
    ELSE DrawdownLoopFrom(
             prices, k + 1, peak_price,
             IF FLess(max_dd, FDiv(Float(peak_price - prices[k], 1),
                                   Float(peak_price, 1)))
             THEN FDiv(Float(peak_price - prices[k], 1), Float(peak_price, 1))
             ELSE max_dd,
             IF current_dd_duration + 1 > max_dd_duration
             THEN current_dd_duration + 1 ELSE max_dd_duration,
             current_dd_duration + 1)

\* the loop of calculate_buy_and_hold over the closes
DrawdownLoop(prices) ==
    DrawdownLoopFrom(prices, 1, prices[1], Float(0, 1), 0, 0)

\* final_value as it would be if the sale were free of commission
final_value_NoSaleFee(btc_amount, end_price, keep) ==
    FMul(btc_amount, Float(end_price, 1))

\* final_value of calculate_buy_and_hold: btc_amount * end_price * (1 - c)
final_value(btc_amount, end_price, keep) ==
    FMul(FMul(btc_amount, Float(end_price, 1)), keep)

\* BenchmarkComparator.calculate_buy_and_hold; the rate is commission_rate
\* in units of 1 / Denom, and {} is None
calculate_buy_and_hold(frame, capital, commission_rate) ==
    IF frame = <<>> THEN None
    ELSE LET start_price == frame[1].close
             end_price == Last(frame).close
             keep == FSub(Float(1, 1), Float(commission_rate, Denom))
             btc_amount == FDiv(FMul(Float(capital, 1), keep),
                                Float(start_price, 1))
             final == final_value(btc_amount, end_price, keep)
             total_return == FSub(final, Float(capital, 1))
             prices == [k \in 1..Len(frame) |-> frame[k].close]
             loop == DrawdownLoop(prices)
         IN  Some([initial_capital |-> capital,
                   final_value |-> final,
                   total_return |-> total_return,
                   total_return_pct |->
                       FMul(FDiv(total_return, Float(capital, 1)), Float(100, 1)),
                   max_drawdown_pct |-> FMul(loop.max_dd, Float(100, 1)),
                   max_drawdown_duration_hours |-> loop.max_dd_duration,
                   sharpe_ratio |-> sharpe_ratio(prices),
                   btc_amount |-> btc_amount,
                   start_price |-> start_price,
                   end_price |-> end_price])

\* the verdict as it would be if one of the two wins were enough
outperforms_Either(return_diff, sharpe_diff) ==
    FLess(Float(0, 1), return_diff) \/ FLess(Float(0, 1), sharpe_diff)

\* outperforms of compare_with_strategy
outperforms(return_diff, sharpe_diff) ==
    FLess(Float(0, 1), return_diff) /\ FLess(Float(0, 1), sharpe_diff)

\* dict.get(key, 0) on a summary whose entries are floats
Get(summary, key) ==
    IF key \in DOMAIN summary THEN summary[key] ELSE Float(0, 1)

\* BenchmarkComparator.compare_with_strategy
compare_with_strategy(strategy_result, buy_hold_result) ==
    LET strategy_summary == IF "summary" \in DOMAIN strategy_result
                            THEN strategy_result.summary ELSE <<>>
        return_diff == FSub(Get(strategy_summary, "total_return_pct"),
                            Get(buy_hold_result, "total_return_pct"))
        sharpe_diff == FSub(Get(strategy_summary, "sharpe_ratio"),
                            Get(buy_hold_result, "sharpe_ratio"))
        dd_diff == FSub(Get(strategy_summary, "max_drawdown_pct"),
                        Get(buy_hold_result, "max_drawdown_pct"))
    IN  [strategy_beats_buy_hold |-> outperforms(return_diff, sharpe_diff),
         return_difference_pct |-> return_diff,
         sharpe_ratio_difference |-> sharpe_diff,
         drawdown_difference_pct |-> dd_diff]

\* ------------------------------------------------------------ simulation loop
\* the reset as it would be if it forgot the trade log
_reset_KeepTrades ==
    /\ trades' = trades
    /\ equity_curve' = <<>>
    /\ positions' = <<>>
    /\ signals' = <<>>

\* Backtester._reset
_reset ==
    /\ trades' = <<>>
    /\ equity_curve' = <<>>
    /\ positions' = <<>>
    /\ signals' = <<>>

\* what DataStorage.load_ohlcv returns for the window of the call
load_ohlcv == store

\* StrategyManager.load_strategy raises for an id that is not registered
available_strategies == {"simple_ma_cross", "macd_rsi", "grid_trading", "ml_based"}

\* the view as it would be if the slice ran one bar too far
View_OneTooFar(frame, idx) == SubSeq(frame, 1, Min(idx + 2, Len(frame)))

\* df.iloc[:i+1] for the 0-based loop index i
View(frame, idx) == SubSeq(frame, 1, idx + 1)

Returned(result) == [kind |-> "returned", result |-> Some(result)]
Raised(error) == [kind |-> "raised", result |-> None, error |-> error]

\* the handling as it would be if run_backtest caught the exception and
\* returned what it had so far
Propagate_ReturnPartial(error) ==
    /\ pc' = "returned"
    /\ outcomes' = Append(outcomes, Returned(_generate_result))

\* run_backtest has no exception handler: an exception raised inside it ends
\* the call without a result
Propagate(error) ==
    /\ pc' = "raised"
    /\ outcomes' = Append(outcomes, Raised(error))

\* run_backtest up to the loop: reset, load the bars, load the strategy
Start ==
    /\ pc \in {"idle", "returned", "raised"}
    /\ Len(outcomes) < MaxRuns
    /\ _reset
    /\ df' = load_ohlcv
    /\ i' = 0
    /\ current_df' = <<>>
    /\ signal' = None
    /\ IF df' = <<>>
       THEN /\ Propagate("FileNotFoundError")
            /\ loaded' = FALSE
            /\ UNCHANGED <<account_balance, position>>
       ELSE IF strategy_id \notin available_strategies
       THEN /\ Propagate("ValueError")
            /\ loaded' = FALSE
            /\ UNCHANGED <<account_balance, position>>
       ELSE /\ pc' = "loop"
            /\ loaded' = TRUE
            /\ account_balance' = initial_capital * Money
            /\ position' = None
            /\ UNCHANGED outcomes
    /\ UNCHANGED <<config, strategy, function, concurrent>>

\* the signal log as it would be if only an executed signal were logged
RecordSignal_OnlyExecuted(sig, current_bar) ==
    signals' = IF /\ sig # "HOLD"
                  /\ _execute_trade(sig, current_bar.close,
                                    current_bar.timestamp, account_balance,
                                    position, None).executed
               THEN Append(signals, [timestamp |-> current_bar.timestamp,
                                     signal |-> sig,
                                     price |-> current_bar.close])
               ELSE signals

\* the signal log entry of a bar (run_backtest, "シグナルを記録")
RecordSignal(sig, current_bar) ==
    signals' = IF sig # "HOLD"
               THEN Append(signals, [timestamp |-> current_bar.timestamp,
                                     signal |-> sig,
                                     price |-> current_bar.close])
               ELSE signals

\* the trade handling as it would be if the loop enforced the stop-loss
UpdateAccount_EnforceStop(sig, current_bar) ==
    LET trade_result == _execute_trade(sig, current_bar.close,
                                       current_bar.timestamp,
                                       account_balance, position, None)
        stopped == /\ sig = "HOLD"
                   /\ position # None
                   /\ position[1].stop_loss # None
                   /\ IF position[1].side = "LONG"
                      THEN current_bar.close <= position[1].stop_loss[1]
                      ELSE current_bar.close >= position[1].stop_loss[1]
        close_result == _close_position(position[1], current_bar.close,
                                        current_bar.timestamp, account_balance)
    IN  IF stopped
        THEN /\ trades' = Append(trades, close_result.trade[1])
             /\ position' = None
             /\ account_balance' = close_result.new_balance
        ELSE IF sig # "HOLD" /\ trade_result.executed
        THEN /\ trades' = Append(trades, trade_result.trade[1])
             /\ position' = IF trade_result.position_opened
                            THEN trade_result.new_position
                            ELSE IF trade_result.position_closed THEN None
                            ELSE position
             /\ account_balance' = trade_result.new_balance
        ELSE UNCHANGED <<trades, position, account_balance>>

\* the trade handling as it would be if a closed position were not cleared
UpdateAccount_KeepClosed(sig, current_bar) ==
    LET trade_result == _execute_trade(sig, current_bar.close,
                                       current_bar.timestamp,
                                       account_balance, position, None)
    IN  IF sig # "HOLD" /\ trade_result.executed
        THEN /\ trades' = Append(trades, trade_result.trade[1])
             /\ position' = IF trade_result.position_opened
                            THEN trade_result.new_position
                            ELSE position
             /\ account_balance' = trade_result.new_balance
        ELSE UNCHANGED <<trades, position, account_balance>>

\* the trade handling as it would be if a trade were filled at the next bar
UpdateAccount_NextBarFill(sig, current_bar) ==
    LET next_bar == df[Min(i + 2, Len(df))]
        trade_result == _execute_trade(sig, next_bar.close,
                                       next_bar.timestamp,
                                       account_balance, position, None)
    IN  IF sig # "HOLD" /\ trade_result.executed
        THEN /\ trades' = Append(trades, trade_result.trade[1])
             /\ position' = IF trade_result.position_opened
                            THEN trade_result.new_position
                            ELSE IF trade_result.position_closed THEN None
                            ELSE position
             /\ account_balance' = trade_result.new_balance
        ELSE UNCHANGED <<trades, position, account_balance>>

\* the trade handling as it would be if an entry were rejected while a
\* position is open
UpdateAccount_RejectWhileOpen(sig, current_bar) ==
    LET trade_result == _execute_trade(sig, current_bar.close,
                                       current_bar.timestamp,
                                       account_balance, position, None)
    IN  IF /\ sig # "HOLD"
           /\ trade_result.executed
           /\ ~(sig \in {"BUY", "SELL"} /\ position # None)
        THEN /\ trades' = Append(trades, trade_result.trade[1])
             /\ position' = IF trade_result.position_opened
                            THEN trade_result.new_position
                            ELSE IF trade_result.position_closed THEN None
                            ELSE position
             /\ account_balance' = trade_result.new_balance
        ELSE UNCHANGED <<trades, position, account_balance>>

\* the trade handling of a bar (run_backtest, "シグナルに基づいて取引を実行")
UpdateAccount(sig, current_bar) ==
    LET trade_result == _execute_trade(sig, current_bar.close,
                                       current_bar.timestamp,
                                       account_balance, position, None)
    IN  IF sig # "HOLD" /\ trade_result.executed
        THEN /\ trades' = Append(trades, trade_result.trade[1])
             /\ position' = IF trade_result.position_opened
                            THEN trade_result.new_position
                            ELSE IF trade_result.position_closed THEN None
                            ELSE position
             /\ account_balance' = trade_result.new_balance
        ELSE UNCHANGED <<trades, position, account_balance>>

\* the equity point as it would be if a bar without an open position were
\* skipped
RecordEquity_SkipFlat(current_bar) ==
    equity_curve' =
        IF position' = None THEN equity_curve
        ELSE Append(equity_curve,
                    [timestamp |-> current_bar.timestamp,
                     balance |-> account_balance',
                     equity |-> account_balance',
                     price |-> current_bar.close])

\* the equity point of a bar, from the position and the balance the trade
\* handling left (run_backtest, "含み損益を計算" and "資産推移を記録")
RecordEquity(current_bar) ==
    LET current_price == current_bar.close
        unrealized_pnl ==
            IF position' = None THEN 0
            ELSE IF position'[1].side = "LONG"
            THEN (current_price * Denom - position'[1].entry_price)
                     * position'[1].size
            ELSE (position'[1].entry_price - current_price * Denom)
                     * position'[1].size
    IN  equity_curve' =
            Append(equity_curve,
                   [timestamp |-> current_bar.timestamp,
                    balance |-> account_balance',
                    equity |-> account_balance' + unrealized_pnl * Denom,
                    price |-> current_price])

\* one iteration of the loop of run_backtest; the Strategy is deterministic:
\* it answers as before when it is given what it was given before
Bar ==
    /\ pc = "loop"
    /\ i < Len(df)
    /\ LET view == View(df, i)
           account_info ==
               [total_balance |-> account_balance,
                available_balance |->
                    IF position = None THEN account_balance ELSE 0]
           key == <<view, position, account_info>>
       IN  /\ current_df' = view
           /\ \E answer \in Signal \cup {"raise"} :
                 /\ key \in DOMAIN strategy => answer = strategy[key]
                 /\ strategy' = IF key \in DOMAIN strategy THEN strategy
                                ELSE strategy @@ (key :> answer)
                 /\ IF answer = "raise"
                    THEN /\ Propagate("StrategyError")
                         /\ UNCHANGED <<trades, equity_curve, signals, position,
                                        account_balance, i, signal>>
                    ELSE /\ signal' = Some(answer)
                         /\ RecordSignal(answer, df[i + 1])
                         /\ UpdateAccount(answer, df[i + 1])
                         /\ RecordEquity(df[i + 1])
                         /\ i' = i + 1
                         /\ UNCHANGED <<pc, outcomes>>
    /\ UNCHANGED <<config, df, positions, loaded, function, concurrent>>

\* the forced close as it would be if it took the first bar for the final one
ForceClose_FirstBar ==
    LET final_bar == df[1]
        close_result == _close_position(position[1], final_bar.close,
                                        final_bar.timestamp, account_balance)
    IN  IF position # None
        THEN /\ trades' = Append(trades, close_result.trade[1])
             /\ account_balance' = close_result.new_balance
        ELSE UNCHANGED <<trades, account_balance>>

\* the forced close after the loop (run_backtest, "最終的なポジションをクローズ")
ForceClose ==
    LET final_bar == Last(df)
        close_result == _close_position(position[1], final_bar.close,
                                        final_bar.timestamp, account_balance)
    IN  IF position # None
        THEN /\ trades' = Append(trades, close_result.trade[1])
             /\ account_balance' = close_result.new_balance
        ELSE UNCHANGED <<trades, account_balance>>

\* calculate_buy_and_hold(df, initial_capital, taker_fee) for every window
\* the store may hold and every taker_fee of the configurations, each
\* computed once
Benchmarks ==
    {[df |-> f, commission_rate |-> r,
      result |-> calculate_buy_and_hold(f, initial_capital, r)] :
        f \in Frames(MaxBars) \ {<<>>},
        r \in {c.taker_fee : c \in CommissionConfigs}}

\* the benchmark of run_backtest ("Buy & Hold戦略の結果を計算")
buy_hold_result(frame) ==
    IF frame # <<>>
    THEN (CHOOSE b \in Benchmarks :
              /\ b.df = frame
              /\ b.commission_rate = commission_config.taker_fee).result
    ELSE None

\* the result as it would be if only a run with trades got a benchmark
WithBenchmark_IfTraded(result, benchmark) ==
    IF benchmark # None /\ result.trades # <<>>
    THEN [buy_hold_comparison |-> benchmark[1]] @@ result
    ELSE result

\* result['buy_hold_comparison'] = buy_hold_result, if there is one
WithBenchmark(result, benchmark) ==
    IF benchmark # None
    THEN [buy_hold_comparison |-> benchmark[1]] @@ result
    ELSE result

\* run_backtest after the loop: forced close, result
Finish ==
    /\ pc = "loop"
    /\ i = Len(df)
    /\ ForceClose
    /\ UNCHANGED <<config, strategy, equity_curve, positions, signals, df, i,
                   position, loaded, current_df, signal, function, concurrent>>
    /\ \E benchmark \in {buy_hold_result(df)} :
           outcomes' = Append(outcomes,
                              Returned(WithBenchmark(
                                  Result([self EXCEPT !.trades = trades']),
                                  benchmark)))
    /\ pc' = "returned"

StrategyIds == {"simple_ma_cross", "unregistered"}

Init ==
    /\ slippage_config \in SlippageConfigs
    /\ commission_config \in CommissionConfigs
    /\ risk_config \in RiskConfigs
    /\ store \in Frames(MaxBars)
    /\ strategy_id \in StrategyIds
    /\ strategy = <<>>
    /\ trades = <<>>
    /\ equity_curve = <<>>
    /\ positions = <<>>
    /\ signals = <<>>
    /\ pc = "idle"
    /\ df = <<>>
    /\ i = 0
    /\ account_balance = initial_capital * Money
    /\ position = None
    /\ loaded = FALSE
    /\ current_df = <<>>
    /\ signal = None
    /\ outcomes = <<>>
    /\ args = None
    /\ ret = None
    /\ calls = <<>>
    /\ logs = <<>>
    /\ shared = FALSE
    /\ _config = NoConfig

Next == Start \/ Bar \/ Finish

Spec == Init /\ [][Next]_vars

\* ------------------------------------------- a function called on its own
\* the longest series handed to a function
MaxPoints == 4

\* the equities and closes the series are made of
Amounts == {15, 90, 100, 110, 120}

\* the series of at most n amounts, the empty one included
SeriesOf(n) == UNION {[1..k -> Amounts] : k \in 0..n}

\* commission rates, in units of 1 / Denom
Rates == 0..2

\* return percentages, and Sharpe ratios in tenths
Percents == {-5, 10, 15}
Sharpes == {-2, 3, 5}

\* the summaries compare_with_strategy is given: with the three entries it
\* reads, or without them
Summaries ==
    {<<>>} \cup
    {[total_return_pct |-> Float(p, 1), sharpe_ratio |-> Float(s, 10),
      max_drawdown_pct |-> Float(0, 1)] : p \in Percents, s \in Sharpes}

\* a frame of bars with the given closes
FrameOf(closes) ==
    [k \in 1..Len(closes) |-> [timestamp |-> k, close |-> closes[k]]]

\* one configuration: free of slippage, commission by percentage, sized
OneConfig ==
    /\ slippage_config = CHOOSE c \in SlippageConfigs : ~c.enabled
    /\ commission_config = CHOOSE c \in CommissionConfigs : c.type = "percentage"
    /\ risk_config = CHOOSE c \in RiskConfigs : c.position_sizing.risk_per_trade = 1
    /\ strategy_id = "simple_ma_cross"

\* no run_backtest call is made one at a time
NoCall ==
    /\ strategy = <<>>
    /\ trades = <<>>
    /\ equity_curve = <<>>
    /\ positions = <<>>
    /\ signals = <<>>
    /\ pc = "idle"
    /\ df = <<>>
    /\ i = 0
    /\ account_balance = initial_capital * Money
    /\ position = None
    /\ loaded = FALSE
    /\ current_df = <<>>
    /\ signal = None
    /\ outcomes = <<>>

InitFunction ==
    /\ OneConfig
    /\ store = <<>>
    /\ NoCall
    /\ args \in
         [function : {"_calculate_statistics"}, equity : SeriesOf(MaxPoints)]
         \cup [function : {"calculate_buy_and_hold"},
               closes : SeriesOf(MaxPoints),
               initial_capital : {initial_capital},
               commission_rate : Rates]
         \cup [function : {"compare_with_strategy"},
               strategy_result : {<<>>} \cup [summary : Summaries],
               buy_hold_result : Summaries]
    /\ ret = None
    /\ calls = <<>>
    /\ logs = <<>>
    /\ shared = FALSE
    /\ _config = NoConfig

\* the drawdown part of _calculate_statistics, on any equity curve
CallStatistics ==
    /\ ret = None
    /\ args.function = "_calculate_statistics"
    /\ ret' = Some([peak |-> cummax(args.equity),
                    drawdown |-> drawdown(args.equity),
                    max_drawdown |-> max_drawdown(args.equity),
                    max_drawdown_pct |-> max_drawdown_pct(args.equity)])
    /\ UNCHANGED <<args, _config, config, sequential, concurrent>>

\* calculate_buy_and_hold, on any frame
CallBuyAndHold ==
    /\ ret = None
    /\ args.function = "calculate_buy_and_hold"
    /\ ret' = Some(calculate_buy_and_hold(FrameOf(args.closes),
                                          args.initial_capital,
                                          args.commission_rate))
    /\ UNCHANGED <<args, _config, config, sequential, concurrent>>

\* compare_with_strategy, on any two summaries
CallCompare ==
    /\ ret = None
    /\ args.function = "compare_with_strategy"
    /\ ret' = Some(compare_with_strategy(args.strategy_result,
                                         args.buy_hold_result))
    /\ UNCHANGED <<args, _config, config, sequential, concurrent>>

NextFunction == CallStatistics \/ CallBuyAndHold \/ CallCompare

SpecFunction == InitFunction /\ [][NextFunction]_vars

\* ------------------------------------------------- two calls at a time
\* the two run_backtest calls
Threads == 1..2

\* what the Strategy of a concurrent call answers with
Answers == {"BUY", "HOLD"}

\* the strategy_id of each call
StrategyOf(t) == IF t = 1 THEN "simple_ma_cross" ELSE "macd_rsi"

\* the logs of an instance after _reset
NoLogs == [trades |-> <<>>, equity_curve |-> <<>>, positions |-> <<>>,
           signals |-> <<>>]

\* a call that has not started
NotStarted ==
    [pc |-> "idle", df |-> <<>>, i |-> 0,
     account_balance |-> initial_capital * Money, position |-> None,
     answers |-> <<>>, result |-> None]

\* the instance as it would be if every call had one of its own
instance_Own(t) == t

\* the instance as it would be if all calls were made on one
instance_Same(t) == 1

\* the instance a call is made on
instance(t) == IF shared THEN 1 ELSE t

\* run_backtest up to the loop, on the locals of a call: the bars loaded,
\* the strategy loaded, balance and position initialised
Started(call, t) ==
    IF load_ohlcv = <<>> \/ StrategyOf(t) \notin available_strategies
    THEN [call EXCEPT !.pc = "raised"]
    ELSE [call EXCEPT !.pc = "loop", !.df = load_ohlcv, !.i = 0,
                      !.account_balance = initial_capital * Money,
                      !.position = None]

\* one iteration of the loop of run_backtest, on the logs of an instance and
\* the locals of a call
Iterated(this, call, answer) ==
    LET current_bar == call.df[call.i + 1]
        current_price == current_bar.close
        trade_result == _execute_trade(answer, current_price,
                                       current_bar.timestamp,
                                       call.account_balance, call.position,
                                       None)
        executed == answer # "HOLD" /\ trade_result.executed
        account_balance_ == IF executed THEN trade_result.new_balance
                            ELSE call.account_balance
        position_ == IF ~executed THEN call.position
                     ELSE IF trade_result.position_opened
                     THEN trade_result.new_position
                     ELSE IF trade_result.position_closed THEN None
                     ELSE call.position
        unrealized_pnl ==
            IF position_ = None THEN 0
            ELSE IF position_[1].side = "LONG"
            THEN (current_price * Denom - position_[1].entry_price)
                     * position_[1].size
            ELSE (position_[1].entry_price - current_price * Denom)
                     * position_[1].size
    IN  [this |->
             [this EXCEPT
                 !.signals = IF answer # "HOLD"
                             THEN Append(@, [timestamp |-> current_bar.timestamp,
                                             signal |-> answer,
                                             price |-> current_price])
                             ELSE @,
                 !.trades = IF executed
                            THEN Append(@, trade_result.trade[1]) ELSE @,
                 !.equity_curve =
                     Append(@, [timestamp |-> current_bar.timestamp,
                                balance |-> account_balance_,
                                equity |-> account_balance_
                                               + unrealized_pnl * Denom,
                                price |-> current_price])],
         call |-> [call EXCEPT !.i = @ + 1,
                               !.account_balance = account_balance_,
                               !.position = position_,
                               !.answers = Append(@, answer)]]

\* run_backtest after the loop, on the logs of an instance and the locals of
\* a call: the forced close, the benchmark, the result
Finished(this, call) ==
    LET final_bar == Last(call.df)
        close_result == _close_position(call.position[1], final_bar.close,
                                        final_bar.timestamp,
                                        call.account_balance)
        closed == IF call.position # None
                  THEN [this EXCEPT !.trades = Append(@, close_result.trade[1])]
                  ELSE this
    IN  [this |-> closed,
         call |-> [call EXCEPT
                      !.pc = "returned",
                      !.account_balance = IF call.position # None
                                          THEN close_result.new_balance ELSE @,
                      !.result = Some(WithBenchmark(Result(closed),
                                                    buy_hold_result(call.df)))]]

\* what a call returns when no other call is made: the loop over the bars
\* with the answers of its Strategy
RECURSIVE Alone(_, _, _)
Alone(this, call, answers) ==
    IF answers = <<>> THEN Finished(this, call).call.result
    ELSE LET next == Iterated(this, call, Head(answers))
         IN  Alone(next.this, next.call, Tail(answers))

InitConcurrent ==
    /\ OneConfig
    /\ store \in Frames(MaxBars)
    /\ NoCall
    /\ args = None
    /\ ret = None
    /\ calls = [t \in Threads |-> NotStarted]
    /\ logs = [t \in Threads |-> NoLogs]
    /\ shared \in BOOLEAN
    /\ _config = NoConfig

\* a call starts: _reset of its instance, the bars, the strategy
ThreadStart(t) ==
    /\ calls[t].pc = "idle"
    /\ logs' = [logs EXCEPT ![instance(t)] = NoLogs]
    /\ calls' = [calls EXCEPT ![t] = Started(@, t)]
    /\ UNCHANGED <<config, sequential, function, shared>>

\* a call handles its next bar
ThreadBar(t) ==
    /\ calls[t].pc = "loop"
    /\ calls[t].i < Len(calls[t].df)
    /\ \E answer \in Answers :
          \E next \in {Iterated(logs[instance(t)], calls[t], answer)} :
              /\ logs' = [logs EXCEPT ![instance(t)] = next.this]
              /\ calls' = [calls EXCEPT ![t] = next.call]
    /\ UNCHANGED <<config, sequential, function, shared>>

\* a call returns
ThreadFinish(t) ==
    /\ calls[t].pc = "loop"
    /\ calls[t].i = Len(calls[t].df)
    /\ \E next \in {Finished(logs[instance(t)], calls[t])} :
          /\ logs' = [logs EXCEPT ![instance(t)] = next.this]
          /\ calls' = [calls EXCEPT ![t] = next.call]
    /\ UNCHANGED <<config, sequential, function, shared>>

NextConcurrent ==
    \E t \in Threads : ThreadStart(t) \/ ThreadBar(t) \/ ThreadFinish(t)

SpecConcurrent == InitConcurrent /\ [][NextConcurrent]_vars

\* ------------------------------------------------------------ ConfigManager
\* the longest key string
MaxKey == 3

\* the characters of a key string; "." separates the segments
Chars == {"a", "b", "."}

\* the strings of at most n characters
RECURSIVE Strings(_)
Strings(n) ==
    IF n = 0 THEN {<<>>}
    ELSE LET shorter == Strings(n - 1)
         IN  shorter \cup {Append(w, c) : w \in shorter, c \in Chars}

Keys == Strings(MaxKey)

\* str.split('.'): the segments between the dots, empty ones included
RECURSIVE split(_)
split(key) ==
    IF \A k \in 1..Len(key) : key[k] # "."
    THEN <<key>>
    ELSE LET dot == CHOOSE k \in 1..Len(key) :
                        key[k] = "." /\ \A j \in 1..(k - 1) : key[j] # "."
         IN  <<SubSeq(key, 1, dot - 1)>>
                 \o split(SubSeq(key, dot + 1, Len(key)))

\* the loop of ConfigManager.get over the segments
RECURSIVE GetFrom(_, _, _)
GetFrom(value, keys, default) ==
    IF keys = <<>> THEN value
    ELSE IF value.dict /\ keys[1] \in DOMAIN value.items
    THEN GetFrom(value.items[keys[1]], Tail(keys), default)
    ELSE default

\* ConfigManager.get
get(key, default) == GetFrom(_config, split(key), default)

\* d[k] = v on a dict
SetItem(d, k, v) == Dict((k :> v) @@ d.items)

\* ConfigManager.set raises TypeError: the walk over keys[:-1] reaches a
\* value that is no dict ("k not in config" or "config[k] = ..." fails on it),
\* which happens before anything is written
RECURSIVE SetRaises(_, _)
SetRaises(d, keys) ==
    \/ ~d.dict
    \/ /\ Len(keys) > 1
       /\ keys[1] \in DOMAIN d.items
       /\ SetRaises(d.items[keys[1]], Tail(keys))

\* the dict after the loop of ConfigManager.set and its last
\* assignment, for a walk that does not raise
RECURSIVE SetIn(_, _, _)
SetIn(d, keys, value) ==
    IF Len(keys) = 1 THEN SetItem(d, keys[1], value)
    ELSE LET child == IF keys[1] \in DOMAIN d.items
                      THEN d.items[keys[1]] ELSE Dict(<<>>)
         IN  SetItem(d, keys[1], SetIn(child, Tail(keys), value))

\* set as it would be if it replaced the whole config by the new path
set_Replace(key, value) ==
    IF SetRaises(_config, split(key)) THEN _config
    ELSE SetIn(Dict(<<>>), split(key), value)

\* ConfigManager.set: self._config after the call
set(key, value) ==
    IF SetRaises(_config, split(key)) THEN _config
    ELSE SetIn(_config, split(key), value)

\* the segment a, the segment b
A == <<"a">>
B == <<"b">>

\* what yaml.safe_load may have given: nested dicts of scalars
Yamls ==
    {Dict(<<>>),
     Dict(A :> Scalar("x")),
     Dict(A :> Dict(B :> Scalar("x"))),
     Dict((A :> Dict((A :> Scalar("y")) @@ (B :> Scalar("x"))))
              @@ (B :> Scalar("y"))),
     Dict(A :> Dict(B :> Dict(A :> Scalar("x"))))}

\* the values set may be given
Values == {Scalar("v"), Dict(<<>>), Dict(B :> Scalar("w"))}

\* the default a get is called with: no value of the config
Default == Scalar("default")

InitConfig ==
    /\ OneConfig
    /\ store = <<>>
    /\ NoCall
    /\ args \in [function : {"ConfigManager"}, yaml : Yamls,
                 key : Keys, value : Values, default : {Default}]
    /\ ret = <<>>
    /\ calls = <<>>
    /\ logs = <<>>
    /\ shared = FALSE
    /\ _config = args.yaml

\* config.set(key, value), once
CallSet ==
    /\ \A k \in 1..Len(ret) : ret[k].function # "set"
    /\ _config' = set(args.key, args.value)
    /\ ret' = Append(ret, [function |-> "set",
                           raised |-> SetRaises(_config, split(args.key))])
    /\ UNCHANGED <<args, config, sequential, concurrent>>

\* config.get(key, default), before the set or after it
CallGet ==
    /\ IF ret = <<>> THEN TRUE ELSE Last(ret).function = "set"
    /\ ret' = Append(ret, [function |-> "get",
                           value |-> get(args.key, args.default)])
    /\ UNCHANGED <<args, _config, config, sequential, concurrent>>

NextConfig == CallSet \/ CallGet

SpecConfig == InitConfig /\ [][NextConfig]_vars

\* --------------------------------------------------------------- strategies
\* current_position as a Strategy is given it: None, or a position of a side
Positions == {None, Some([side |-> "LONG"]), Some([side |-> "SHORT"])}

\* "not current_position or current_position.get('side') is None"
NoPosition(current_position) == current_position = None

\* a frame as a Strategy reads it: its length, whether the indicator columns
\* are there, and its last two rows, df.iloc[current_idx - 1] and
\* df.iloc[current_idx]
LastRows(length, columns, prev, current) ==
    [len |-> length, columns |-> columns, prev |-> prev, current |-> current]

\* SimpleMovingAverageCrossStrategy.__init__
SimpleMovingAverageCrossStrategy(params) ==
    [short_period |-> params.short_period,
     long_period |-> params.long_period,
     confirmation_bars |-> params.confirmation_bars,
     cross_detected |-> FALSE,
     cross_direction |-> "None",
     cross_bar_count |-> 0]

\* the counting of a cross in _check_entry_signal: the strategy with the
\* cross of the given direction counted
Counted(this, direction) ==
    IF ~this.cross_detected \/ this.cross_direction # direction
    THEN [this EXCEPT !.cross_detected = TRUE,
                      !.cross_direction = direction,
                      !.cross_bar_count = 1]
    ELSE [this EXCEPT !.cross_bar_count = @ + 1]

\* the signal returned for a counted cross, or HOLD while it is unconfirmed
Confirmed(this, sig) ==
    IF this.cross_bar_count >= this.confirmation_bars
    THEN [signal |-> sig,
          strategy |-> [this EXCEPT !.cross_detected = FALSE,
                                    !.cross_bar_count = 0]]
    ELSE [signal |-> "HOLD", strategy |-> this]

\* _check_entry_signal as it would be if a touch of the averages were a cross
_check_entry_signal_Touch(this, current_short, current_long, prev_short, prev_long) ==
    IF prev_short <= prev_long /\ current_short >= current_long
    THEN Confirmed(Counted(this, "golden"), "BUY")
    ELSE IF prev_short >= prev_long /\ current_short <= current_long
    THEN Confirmed(Counted(this, "dead"), "SELL")
    ELSE [signal |-> "HOLD", strategy |-> this]

\* SimpleMovingAverageCrossStrategy._check_entry_signal
_check_entry_signal(this, current_short, current_long, prev_short, prev_long) ==
    IF prev_short <= prev_long /\ current_short > current_long
    THEN Confirmed(Counted(this, "golden"), "BUY")
    ELSE IF prev_short >= prev_long /\ current_short < current_long
    THEN Confirmed(Counted(this, "dead"), "SELL")
    ELSE [signal |-> "HOLD",
          strategy |-> IF this.cross_detected
                       THEN [this EXCEPT !.cross_detected = FALSE,
                                         !.cross_bar_count = 0]
                       ELSE this]

\* SimpleMovingAverageCrossStrategy._check_exit_signal
_check_exit_signal(this, current_short, current_long, prev_short, prev_long, current_position) ==
    IF /\ current_position[1].side = "LONG"
       /\ prev_short >= prev_long /\ current_short < current_long
    THEN [signal |-> "CLOSE_LONG", strategy |-> this]
    ELSE IF /\ current_position[1].side = "SHORT"
            /\ prev_short <= prev_long /\ current_short > current_long
    THEN [signal |-> "CLOSE_SHORT", strategy |-> this]
    ELSE [signal |-> "HOLD", strategy |-> this]

\* SimpleMovingAverageCrossStrategy.generate_signal: the signal, and the
\* strategy after the call
MaCrossSignal(this, view, current_position) ==
    IF view.len < this.long_period + this.confirmation_bars
    THEN [signal |-> "HOLD", strategy |-> this]
    ELSE IF ~view.columns
    THEN [signal |-> "HOLD", strategy |-> this]
    ELSE IF NoPosition(current_position)
    THEN _check_entry_signal(this, view.current.sma_short, view.current.sma_long,
                             view.prev.sma_short, view.prev.sma_long)
    ELSE _check_exit_signal(this, view.current.sma_short, view.current.sma_long,
                            view.prev.sma_short, view.prev.sma_long,
                            current_position)

\* the averages of a row, and the rows: short below, at and above long
Averages == {1, 2}
MaRows == [sma_short : Averages, sma_long : Averages]

\* the frames a moving average strategy is called with
MaViews ==
    {LastRows(n, c, prev, current) :
        n \in 0..(MaxBars + 2), c \in BOOLEAN, prev \in MaRows, current \in MaRows}

\* the parameters of the moving average strategies
MaParams ==
    [short_period : {1}, long_period : {1, 2}, confirmation_bars : {1, 2}]

\* MACDRSIStrategy.__init__
MACDRSIStrategy(params) ==
    [rsi_oversold |-> params.rsi_oversold,
     rsi_overbought |-> params.rsi_overbought,
     macd_threshold |-> params.macd_threshold]

\* "MACD計算に必要な最小データ数" of MACDRSIStrategy.generate_signal
MinBars == 50

\* MACDRSIStrategy.generate_signal: its entry and exit checks included
MacdRsiSignal(this, view, current_position) ==
    LET macd == view.current.macd
        histogram == view.current.macd_histogram
        prev_histogram == view.prev.macd_histogram
        rsi == view.current.rsi
        sig ==
            IF view.len < MinBars THEN "HOLD"
            ELSE IF ~view.columns THEN "HOLD"
            ELSE IF view.current.isna THEN "HOLD"
            ELSE IF NoPosition(current_position)
            THEN IF /\ rsi < this.rsi_oversold + 10
                    /\ prev_histogram <= 0 /\ histogram > 0
                    /\ macd > this.macd_threshold
                 THEN "BUY"
                 ELSE IF /\ rsi > this.rsi_overbought - 10
                         /\ prev_histogram >= 0 /\ histogram < 0
                         /\ macd < -this.macd_threshold
                 THEN "SELL"
                 ELSE "HOLD"
            ELSE IF current_position[1].side = "LONG"
            THEN IF rsi >= this.rsi_overbought THEN "CLOSE_LONG"
                 ELSE IF histogram < -Abs(this.macd_threshold) * 2
                 THEN "CLOSE_LONG"
                 ELSE "HOLD"
            ELSE IF current_position[1].side = "SHORT"
            THEN IF rsi <= this.rsi_oversold THEN "CLOSE_SHORT"
                 ELSE IF histogram > Abs(this.macd_threshold) * 2
                 THEN "CLOSE_SHORT"
                 ELSE "HOLD"
            ELSE "HOLD"
    IN  [signal |-> sig, strategy |-> this]

\* the rows of a frame with MACD and RSI; isna: one of macd, macd_signal and
\* rsi is NaN
MacdRows ==
    [macd : {-1, 1}, macd_histogram : {-1, 0, 1}, rsi : {25, 50, 75},
     isna : BOOLEAN]

MacdViews ==
    {LastRows(n, c, prev, current) :
        n \in {MinBars - 1, MinBars}, c \in BOOLEAN,
        prev \in {r \in MacdRows : r.macd = 1 /\ r.rsi = 50 /\ ~r.isna},
        current \in MacdRows}

MacdParams ==
    [rsi_oversold : {30}, rsi_overbought : {70}, macd_threshold : {0}]

\* MLBasedStrategy.__init__, without a pretrained model; model: it is trained
MLBasedStrategy(params) ==
    [prediction_threshold |-> params.prediction_threshold,
     min_data_points |-> params.min_data_points,
     retrain_interval |-> params.retrain_interval,
     model |-> FALSE,
     last_train_index |-> 0]

\* MLBasedStrategy.generate_signal; the row of the view is what the model
\* predicts on the frame, probabilities in percent, or that predicting fails
MlBasedSignal(this, view, current_position) ==
    IF view.len < this.min_data_points
    THEN [signal |-> "HOLD", strategy |-> this]
    ELSE IF ~this.model
            \/ view.len - this.last_train_index > this.retrain_interval
    THEN [signal |-> "HOLD",
          strategy |-> [this EXCEPT !.model = TRUE,
                                    !.last_train_index = view.len]]
    ELSE IF view.current.error
    THEN [signal |-> "HOLD", strategy |-> this]
    ELSE [strategy |-> this,
          signal |->
              IF ~NoPosition(current_position)
              THEN IF /\ current_position[1].side = "LONG"
                      /\ view.current.sell_prob > this.prediction_threshold
                   THEN "CLOSE_LONG"
                   ELSE IF /\ current_position[1].side = "SHORT"
                           /\ view.current.buy_prob > this.prediction_threshold
                   THEN "CLOSE_SHORT"
                   ELSE "HOLD"
              ELSE IF /\ view.current.buy_prob > this.prediction_threshold
                      /\ view.current.prediction = 1
              THEN "BUY"
              ELSE IF /\ view.current.sell_prob > this.prediction_threshold
                      /\ view.current.prediction = -1
              THEN "SELL"
              ELSE "HOLD"]

MlRows ==
    [prediction : {-1, 0, 1}, buy_prob : {20, 70}, sell_prob : {20, 70},
     error : BOOLEAN]

MlViews ==
    {LastRows(n, TRUE, current, current) :
        n \in 0..(MaxBars + 2), current \in MlRows}

MlParams ==
    [prediction_threshold : {60}, min_data_points : {2}, retrain_interval : {1}]

\* GridTradingStrategy.__init__
GridTradingStrategy(params) ==
    [grid_count |-> params.grid_count,
     grid_spacing_pct |-> params.grid_spacing_pct,
     rebalance_threshold |-> params.rebalance_threshold,
     grid_levels |-> <<>>,
     center_price |-> None]

\* GridLevel; the price is held times 100
GridLevel(price, side) == [price |-> price, side |-> side, filled |-> FALSE]

\* GridTradingStrategy._initialize_grid on a frame without an atr column:
\* the SELL levels above the price and the BUY levels below it, sorted by
\* price
_initialize_grid(this, current_price) ==
    LET half == this.grid_count \div 2
        buys == [k \in 1..half |->
                    GridLevel(current_price
                                  * (100 - this.grid_spacing_pct * (half + 1 - k)),
                              "BUY")]
        sells == [k \in 1..half |->
                     GridLevel(current_price * (100 + this.grid_spacing_pct * k),
                               "SELL")]
    IN  [this EXCEPT !.center_price = Some(current_price),
                     !.grid_levels = buys \o sells]

\* GridTradingStrategy._should_rebalance_grid
_should_rebalance_grid(this, current_price) ==
    IF this.center_price = None THEN TRUE
    ELSE Abs(current_price - this.center_price[1]) * 100
             > this.rebalance_threshold * this.center_price[1]

\* GridTradingStrategy._find_triggered_levels: the indices of the levels
_find_triggered_levels(this, current_price, prev_price) ==
    {k \in 1..Len(this.grid_levels) :
        LET level == this.grid_levels[k]
        IN  /\ ~level.filled
            /\ IF level.side = "BUY"
               THEN prev_price * 100 > level.price
                        /\ level.price >= current_price * 100
               ELSE prev_price * 100 < level.price
                        /\ level.price <= current_price * 100}

\* min(triggered_levels, key=lambda l: abs(l.price - current_price)): the
\* first of the nearest levels
Nearest_level(this, triggered, current_price) ==
    CHOOSE k \in triggered :
        \A j \in triggered :
            LET dk == Abs(this.grid_levels[k].price - current_price * 100)
                dj == Abs(this.grid_levels[j].price - current_price * 100)
            IN  dk < dj \/ (dk = dj /\ k <= j)

\* GridTradingStrategy.generate_signal
GridSignal(this, view, current_position) ==
    IF view.len < 2 THEN [signal |-> "HOLD", strategy |-> this]
    ELSE IF this.grid_levels = <<>>
            \/ _should_rebalance_grid(this, view.current.close)
    THEN [signal |-> "HOLD",
          strategy |-> _initialize_grid(this, view.current.close)]
    ELSE LET triggered == _find_triggered_levels(this, view.current.close,
                                                 view.prev.close)
         IN  IF triggered = {} THEN [signal |-> "HOLD", strategy |-> this]
             ELSE LET k == Nearest_level(this, triggered, view.current.close)
                  IN  [signal |-> this.grid_levels[k].side,
                       strategy |->
                           [this EXCEPT !.grid_levels[k].filled = TRUE]]

\* the closes of the frames of the grid strategy
GridPrices == {940, 975, 985, 1000, 1015}

GridViews ==
    {LastRows(n, TRUE, [close |-> prev], [close |-> current]) :
        n \in 1..2, prev \in GridPrices, current \in GridPrices}

GridParams ==
    [grid_count : {4}, grid_spacing_pct : {1}, rebalance_threshold : {5}]

\* StrategyManager.load_strategy: a new Strategy of the class registered
load_strategy(id) ==
    IF id = "simple_ma_cross"
    THEN {SimpleMovingAverageCrossStrategy(params) : params \in MaParams}
    ELSE IF id = "macd_rsi"
    THEN {MACDRSIStrategy(params) : params \in MacdParams}
    ELSE IF id = "grid_trading"
    THEN {GridTradingStrategy(params) : params \in GridParams}
    ELSE {MLBasedStrategy(params) : params \in MlParams}

\* the Strategy called: what generate_signal returned, and the Strategy after
Called(view, current_position, returned) ==
    /\ current_df' = view
    /\ position' = current_position
    /\ signal' = Some(returned.signal)
    /\ strategy' = returned.strategy
    /\ UNCHANGED <<config, trades, equity_curve, positions, signals, pc, df, i,
                   account_balance, loaded, outcomes, function, concurrent>>

InitStrategy ==
    /\ slippage_config = CHOOSE c \in SlippageConfigs : ~c.enabled
    /\ commission_config = CHOOSE c \in CommissionConfigs : c.type = "percentage"
    /\ risk_config = CHOOSE c \in RiskConfigs : c.position_sizing.risk_per_trade = 1
    /\ store = <<>>
    /\ strategy_id \in available_strategies
    /\ strategy \in load_strategy(strategy_id)
    /\ trades = <<>>
    /\ equity_curve = <<>>
    /\ positions = <<>>
    /\ signals = <<>>
    /\ pc = "idle"
    /\ df = <<>>
    /\ i = 0
    /\ account_balance = initial_capital * Money
    /\ position = None
    /\ loaded = TRUE
    /\ current_df = <<>>
    /\ signal = None
    /\ outcomes = <<>>
    /\ args = None
    /\ ret = None
    /\ calls = <<>>
    /\ logs = <<>>
    /\ shared = FALSE
    /\ _config = NoConfig

\* SimpleMovingAverageCrossStrategy.generate_signal on any frame and position
CallMaCross ==
    /\ strategy_id = "simple_ma_cross"
    /\ \E view \in MaViews, current_position \in Positions :
           Called(view, current_position,
                  MaCrossSignal(strategy, view, current_position))

\* MACDRSIStrategy.generate_signal on any frame and position
CallMacdRsi ==
    /\ strategy_id = "macd_rsi"
    /\ \E view \in MacdViews, current_position \in Positions :
           Called(view, current_position,
                  MacdRsiSignal(strategy, view, current_position))

\* GridTradingStrategy.generate_signal on any frame and position
CallGridTrading ==
    /\ strategy_id = "grid_trading"
    /\ \E view \in GridViews, current_position \in Positions :
           Called(view, current_position,
                  GridSignal(strategy, view, current_position))

\* MLBasedStrategy.generate_signal on any frame and position
CallMlBased ==
    /\ strategy_id = "ml_based"
    /\ \E view \in MlViews, current_position \in Positions :
           Called(view, current_position,
                  MlBasedSignal(strategy, view, current_position))

NextStrategy == CallMaCross \/ CallMacdRsi \/ CallGridTrading \/ CallMlBased

SpecStrategy == InitStrategy /\ [][NextStrategy]_vars

\* ------------------------------- the statistics and the benchmark at zero
\* initial capitals: none, and that of the runs
Capitals == {0, initial_capital}

\* closes and equity gains, zero included
ZeroAmounts == {0, 100, 110}

\* the pnl of a closed trade, in units of 1 / Denom
Pnls == {-1000, 0, 1000}

\* the longest series handed to a function at zero
MaxZeroPoints == 2

\* the series of 1 .. MaxZeroPoints amounts
ZeroSeries == UNION {[1..k -> ZeroAmounts] : k \in 1..MaxZeroPoints}

\* the logs of a run on the given capital, times Money: an entry free of
\* commission, a close with the given pnl if there is one, and one equity
\* point per gain
LogsOf(capital, pnl, gains) ==
    LET entry == [timestamp |-> 1, type |-> "ENTRY", side |-> "BUY",
                  price |-> 100 * Denom, size |-> 1, value |-> 100 * Denom,
                  commission |-> 0,
                  balance_before |-> capital, balance_after |-> capital]
        exit == [timestamp |-> Len(gains), type |-> "EXIT", side |-> "SELL",
                 price |-> 100 * Denom + pnl[1], size |-> 1,
                 value |-> 100 * Denom + pnl[1], commission |-> 0,
                 pnl |-> pnl[1], balance_before |-> capital,
                 balance_after |-> capital + pnl[1] * Denom]
    IN  [trades |-> IF pnl = None THEN <<entry>> ELSE <<entry, exit>>,
         equity_curve |-> [k \in 1..Len(gains) |->
                              [timestamp |-> k,
                               balance |-> capital,
                               equity |-> capital + gains[k] * Money,
                               price |-> 100]],
         positions |-> <<>>,
         signals |-> <<>>]

InitZero ==
    /\ OneConfig
    /\ store = <<>>
    /\ NoCall
    /\ args \in
         [function : {"_calculate_statistics"},
          initial_capital : Capitals,
          pnl : {None} \cup {Some(p) : p \in Pnls},
          gains : ZeroSeries]
         \cup [function : {"calculate_buy_and_hold"},
               closes : ZeroSeries,
               initial_capital : Capitals,
               commission_rate : Rates]
    /\ ret = None
    /\ calls = <<>>
    /\ logs = <<>>
    /\ shared = FALSE
    /\ _config = NoConfig

\* _calculate_statistics on the logs of a run with a trade
CallStatisticsAtZero ==
    /\ ret = None
    /\ args.function = "_calculate_statistics"
    /\ ret' = Some(StatisticsOf(LogsOf(args.initial_capital * Money,
                                       args.pnl, args.gains),
                                args.initial_capital * Money))
    /\ UNCHANGED <<args, _config, config, sequential, concurrent>>

\* calculate_buy_and_hold on a frame and a capital that may be zero
CallBuyAndHoldAtZero ==
    /\ ret = None
    /\ args.function = "calculate_buy_and_hold"
    /\ ret' = Some(calculate_buy_and_hold(FrameOf(args.closes),
                                          args.initial_capital,
                                          args.commission_rate))
    /\ UNCHANGED <<args, _config, config, sequential, concurrent>>

NextZero == CallStatisticsAtZero \/ CallBuyAndHoldAtZero

SpecZero == InitZero /\ [][NextZero]_vars

\* ---------------------------------------------------------------- properties
\* the 0-based index of the bar on which generate_signal was last called
CalledBar ==
    IF pc = "raised" /\ Last(outcomes).error = "StrategyError" THEN i ELSE i - 1

\* C1: no-lookahead.  The history view handed to generate_signal on bar i is
\* exactly bars 0..i: its last row is bar i and no row is later than bar i.
C1_NoLookahead ==
    current_df # <<>> =>
        /\ Len(current_df) = CalledBar + 1
        /\ \A k \in 1..Len(current_df) :
              /\ current_df[k] = df[k]
              /\ current_df[k].timestamp <= df[CalledBar + 1].timestamp
        /\ Last(current_df) = df[CalledBar + 1]

\* C1 witness: the Strategy was called on the first of two bars and was
\* handed that bar only
C1_Witness ==
    /\ pc = "loop"
    /\ i = 1
    /\ Len(df) = 2
    /\ current_df = <<df[1]>>

\* C2: after a completed run over N bars the equity curve holds N points, the
\* k-th with the k-th bar's timestamp; in the loop every bar, with or without
\* a signal or trade, has added one point, and the forced close adds none.
C2_EquityPerBar ==
    /\ pc = "loop" =>
          /\ Len(equity_curve) = i
          /\ \A k \in 1..i : equity_curve[k].timestamp = df[k].timestamp
    /\ pc = "returned" =>
          /\ df # <<>>
          /\ Len(equity_curve) = Len(df)
          /\ \A k \in 1..Len(df) : equity_curve[k].timestamp = df[k].timestamp
          /\ Last(outcomes).result[1].equity_curve.timestamps =
                 [k \in 1..Len(df) |-> df[k].timestamp]
          /\ Len(Last(outcomes).result[1].equity_curve.balance) = Len(df)
          /\ Len(Last(outcomes).result[1].equity_curve.equity) = Len(df)

\* C2 witness: a completed run over two bars, one with a trade and one
\* without a signal, that ended with a forced close
C2_Witness ==
    /\ pc = "returned"
    /\ Len(df) = 2
    /\ Len(signals) = 1
    /\ Len(trades) = 2
    /\ Last(trades).type = "EXIT"
    /\ Len(equity_curve) = 2
\* C3: determinism.  Every call runs on the same instance, with the same
\* bars, parameters and deterministic Strategy; any two calls that return,
\* return the same result (summary, equity curve, trades with their pnl,
\* signals).  A call enters its loop with empty trade, equity and signal logs,
\* the initial capital as balance and no position.
C3_Deterministic ==
    /\ \A a, b \in 1..Len(outcomes) :
          outcomes[a].kind = "returned" /\ outcomes[b].kind = "returned"
              => outcomes[a].result = outcomes[b].result
    /\ pc = "loop" /\ i = 0 =>
          /\ trades = <<>>
          /\ equity_curve = <<>>
          /\ signals = <<>>
          /\ positions = <<>>
          /\ account_balance = initial_capital * Money
          /\ position = None

\* C3 witness: two calls have returned, and the first one left trades, a
\* changed balance and signals behind for the second to meet
C3_Witness ==
    /\ Len(outcomes) = 2
    /\ outcomes[1].kind = "returned"
    /\ outcomes[2].kind = "returned"
    /\ outcomes[1].result[1].trades # <<>>
    /\ outcomes[1].result[1].signals # <<>>
    /\ outcomes[1].result[1].summary.final_balance # initial_capital * Money
Count(log, type) == Len(SelectSeq(log, LAMBDA t : t.type = type))

\* the number of ENTRY trades that directly follow an ENTRY trade: the
\* entries executed while a position was open
Overwrites(log) ==
    Cardinality({k \in 1..(Len(log) - 1) :
                    log[k].type = "ENTRY" /\ log[k + 1].type = "ENTRY"})

OpensPosition(trade, pos) ==
    /\ trade.type = "ENTRY"
    /\ (trade.side = "BUY") = (pos.side = "LONG")
    /\ trade.price = pos.entry_price
    /\ trade.size = pos.size
    /\ trade.timestamp = pos.entry_time

ClosesPosition(trade, pos) ==
    /\ trade.type = "EXIT"
    /\ (trade.side = "SELL") = (pos.side = "LONG")
    /\ trade.size = pos.size
    /\ trade.pnl = IF pos.side = "LONG"
                   THEN (trade.price - pos.entry_price) * pos.size
                   ELSE (pos.entry_price - trade.price) * pos.size

\* C4 as claimed: in the loop, ENTRY trades minus EXIT trades is 1 if a
\* position is open and 0 otherwise, for any Strategy.
C4_AsClaimed ==
    pc = "loop" =>
        Count(trades, "ENTRY") - Count(trades, "EXIT") =
            IF position # None THEN 1 ELSE 0

C4_LogInvariant ==
    pc = "loop" =>
        /\ position # None <=> (trades # <<>> /\ Last(trades).type = "ENTRY")
        /\ position # None => OpensPosition(Last(trades), position[1])
        /\ Count(trades, "ENTRY") - Count(trades, "EXIT") =
               (IF position # None THEN 1 ELSE 0) + Overwrites(trades)

C4_LogStep ==
    pc = "loop" /\ pc' = "loop" /\ position' # position =>
        /\ trades' = Append(trades, Last(trades'))
        /\ IF position' # None
           THEN OpensPosition(Last(trades'), position'[1])
           ELSE ClosesPosition(Last(trades'), position[1])

\* C4 amended: in the loop the open position changes only together with a
\* TradeRecord.  A position comes into existence only when an ENTRY trade is
\* appended; it stops being the open position only when an EXIT trade for it
\* is appended or when a further ENTRY trade replaces it.  A position is open
\* exactly when the last trade is an ENTRY, and ENTRY trades minus EXIT
\* trades is (1 if a position is open, else 0) plus the number of ENTRY trades
\* executed while a position was open.
C4_PositionFollowsLog == []C4_LogInvariant /\ [][C4_LogStep]_vars

\* C4 witness: an ENTRY was executed while a position was open
C4_Witness ==
    /\ pc = "loop"
    /\ Len(trades) = 2
    /\ trades[1].type = "ENTRY"
    /\ trades[2].type = "ENTRY"
    /\ position # None
    /\ OpensPosition(trades[2], position[1])
C5_ForcedCloseStep ==
    pc = "loop" /\ pc' = "returned" =>
        IF position # None
        THEN /\ trades' = Append(trades, Last(trades'))
             /\ ClosesPosition(Last(trades'), position[1])
             /\ Last(trades').timestamp = Last(df).timestamp
             /\ Last(trades').price =
                    _apply_slippage(Last(df).close,
                                    IF position[1].side = "LONG"
                                    THEN "SELL" ELSE "BUY")
        ELSE trades' = trades

C5_CompletedLog ==
    pc = "returned" =>
        /\ trades = <<>> \/ Last(trades).type = "EXIT"
        /\ Last(outcomes).result[1].trades = trades

\* C5: when a position is still open after the last bar, run_backtest appends
\* exactly one EXIT trade for it, priced from the final bar's close and
\* stamped with the final bar's timestamp (and appends nothing otherwise); so
\* the trade log of a completed run is empty or ends with an EXIT trade: the
\* position last opened has been closed.
C5_ForcedClose == []C5_CompletedLog /\ [][C5_ForcedCloseStep]_vars

\* C5 witness: a run of two bars with different closes returned after a
\* position entered on the first bar was force-closed on the second
C5_Witness ==
    /\ pc = "returned"
    /\ Len(df) = 2
    /\ df[1].close # df[2].close
    /\ Len(trades) = 2
    /\ trades[1].type = "ENTRY"
    /\ trades[1].timestamp = 1
    /\ trades[2].type = "EXIT"
    /\ trades[2].timestamp = 2
    /\ Len(signals) = 1
\* a step that appends an EXIT trade: a close in the loop or the forced close
ExitAppended ==
    /\ Len(trades') = Len(trades) + 1
    /\ Last(trades').type = "EXIT"

\* what C6 says of the pnl, the balance and the position of a close at the
\* slipped exit price x = Last(trades').price
C6_PnlAndBalance ==
    LET t == Last(trades')
        pos == position[1]
    IN  /\ position # None
        /\ t.size = pos.size
        /\ t.value = pos.size * t.price
        /\ pos.side = "LONG" => t.pnl = (t.price - pos.entry_price) * pos.size
        /\ pos.side = "SHORT" => t.pnl = (pos.entry_price - t.price) * pos.size
        /\ (pos.entry_price = 100 * Denom /\ t.price = 110 * Denom /\ pos.size = 1)
               => t.pnl = IF pos.side = "LONG" THEN 10 * Denom ELSE -10 * Denom
        /\ t.balance_before = account_balance
        /\ t.balance_after = account_balance + t.pnl * Denom - t.commission
        /\ account_balance' = t.balance_after
        /\ pc' = "loop" => position' = None

\* C6 as claimed: every close charges commission at the taker rate on
\* size * x.
C6_AsClaimed ==
    [][ExitAppended =>
          /\ C6_PnlAndBalance
          /\ Last(trades').commission =
                 position[1].size * Last(trades').price
                     * commission_config.taker_fee]_vars

\* C6 amended: closing a position at slipped exit price x records an EXIT
\* trade with pnl = (x - entry_price) * size for a LONG and
\* (entry_price - x) * size for a SHORT (entry 100, exit 110, size 1: +10 and
\* -10), charges, in 'percentage' commission mode, commission at the taker
\* rate on size * x and, in 'fixed' mode, the flat fee, sets the new balance
\* to old balance + pnl - commission, and leaves no open position.
C6_Close ==
    [][ExitAppended =>
          /\ C6_PnlAndBalance
          /\ commission_config.type = "percentage" =>
                 Last(trades').commission =
                     position[1].size * Last(trades').price
                         * commission_config.taker_fee
          /\ commission_config.type = "fixed" =>
                 Last(trades').commission =
                     commission_config.fixed_fee * Money]_vars

\* C6 witness: in 'percentage' commission mode a LONG entered at the close
\* 100 was closed in the loop at the close 110, with a commission
C6_Witness ==
    /\ pc = "loop"
    /\ commission_config.type = "percentage"
    /\ Len(trades) = 2
    /\ trades[1].type = "ENTRY"
    /\ trades[1].side = "BUY"
    /\ df[1].close = 100
    /\ trades[2].type = "EXIT"
    /\ df[2].close = 110
    /\ trades[2].commission > 0
    /\ trades[2].pnl # 0
    /\ account_balance = trades[2].balance_after
    /\ position = None
\* a step that appends an ENTRY trade
EntryAppended ==
    /\ Len(trades') = Len(trades) + 1
    /\ Last(trades').type = "ENTRY"

\* C7: an executed BUY or SELL entry records an ENTRY trade whose commission
\* is size * slipped price * maker rate ('percentage' mode) or the flat fee
\* ('fixed' mode), sets balance_after = balance_before - commission (the
\* notional is not debited), and opens a position that is LONG for BUY and
\* SHORT for SELL with entry_price equal to the slipped price.
C7_Entry ==
    [][EntryAppended =>
          LET t == Last(trades')
              sig == signal'[1]
          IN  /\ sig \in {"BUY", "SELL"}
              /\ t.side = sig
              /\ t.price = _apply_slippage(df[i + 1].close, sig)
              /\ t.size > 0
              /\ t.value = t.size * t.price
              /\ commission_config.type = "percentage" =>
                     t.commission =
                         t.size * t.price * commission_config.maker_fee
              /\ commission_config.type = "fixed" =>
                     t.commission = commission_config.fixed_fee * Money
              /\ t.balance_before = account_balance
              /\ t.balance_after = account_balance - t.commission
              /\ account_balance' = account_balance - t.commission
              /\ position' # None
              /\ position'[1].side = (IF sig = "BUY" THEN "LONG" ELSE "SHORT")
              /\ position'[1].entry_price = t.price
              /\ position'[1].size = t.size]_vars

\* C7 witness: in 'percentage' commission mode a SELL entry of size 2 has just
\* been executed with slippage and has cost its commission only
C7_Witness ==
    /\ pc = "loop"
    /\ commission_config.type = "percentage"
    /\ slippage_config.enabled
    /\ slippage_config.type = "percentage"
    /\ Len(trades) = 1
    /\ trades[1].type = "ENTRY"
    /\ trades[1].side = "SELL"
    /\ trades[1].size = 2
    /\ trades[1].commission > 0
    /\ position # None
    /\ position[1].side = "SHORT"
    /\ account_balance = initial_capital * Money - trades[1].commission
\* the close, times Denom, of the bar a trade is stamped with
BarClose(trade) == df[trade.timestamp].close * Denom

\* C8: slippage is adverse.  With slippage enabled, in 'percentage' and in
\* 'fixed' mode with a non-negative setting, every trade that buys (a BUY
\* entry, the exit of a SHORT) is priced at or above its bar's close and every
\* trade that sells (a SELL entry, the exit of a LONG) at or below it; with
\* slippage disabled the price is the close.
C8_AdverseSlippage ==
    \A k \in 1..Len(trades) :
        LET t == trades[k]
        IN  /\ ~slippage_config.enabled => t.price = BarClose(t)
            /\ (/\ slippage_config.enabled
                /\ \/ /\ slippage_config.type = "percentage"
                      /\ slippage_config.percentage >= 0
                   \/ /\ slippage_config.type = "fixed"
                      /\ slippage_config.amount >= 0)
               => /\ t.side = "BUY" => t.price >= BarClose(t)
                  /\ t.side = "SELL" => t.price <= BarClose(t)

\* C8 witness: with slippage enabled a SHORT was entered below its bar's close
\* and closed above its bar's close
C8_Witness ==
    /\ slippage_config.enabled
    /\ slippage_config.type \in {"percentage", "fixed"}
    /\ Len(trades) = 2
    /\ trades[1].type = "ENTRY"
    /\ trades[1].side = "SELL"
    /\ trades[1].price < BarClose(trades[1])
    /\ trades[2].type = "EXIT"
    /\ trades[2].side = "BUY"
    /\ trades[2].price > BarClose(trades[2])
\* a step of the loop on which the Strategy returned sig
BarWith(sigs) ==
    /\ pc = "loop"
    /\ pc' = "loop"
    /\ i' = i + 1
    /\ signal' # None
    /\ signal'[1] \in sigs

\* the close of the bar is at or beyond the stop-loss of the position
BeyondStop(pos, close) ==
    /\ pos.stop_loss # None
    /\ IF pos.side = "LONG" THEN close <= pos.stop_loss[1]
                            ELSE close >= pos.stop_loss[1]

\* C9: stop-loss and take-profit are advisory.  An EXIT trade is appended only
\* on a bar where the Strategy returned CLOSE_LONG, CLOSE_SHORT or CLOSE_ALL,
\* or at the end of the run; on a bar where it returned HOLD the position, the
\* balance and the trade log are unchanged, whatever the bar's price.
C9_AdvisoryStops ==
    [][/\ ExitAppended =>
             \/ pc = "loop" /\ i = Len(df) /\ pc' = "returned"
             \/ BarWith({"CLOSE_LONG", "CLOSE_SHORT", "CLOSE_ALL"})
       /\ BarWith({"HOLD"}) =>
             /\ position' = position
             /\ account_balance' = account_balance
             /\ trades' = trades]_vars

\* C9 witness: the Strategy has just returned HOLD on a bar whose close is
\* below the stop-loss of the open LONG position, which is still open
C9_Witness ==
    /\ pc = "loop"
    /\ i = 2
    /\ signal = <<"HOLD">>
    /\ position # None
    /\ position[1].side = "LONG"
    /\ position[1].stop_loss # None
    /\ df[2].close < position[1].stop_loss[1]
    /\ BeyondStop(position[1], df[2].close)
    /\ Len(trades) = 1
\* C10: no partial result.  A call on an empty bar sequence raises before the
\* Strategy is loaded or called; a call in which generate_signal raises on
\* some bar raises too; a raising call yields no result, and every result that
\* is returned covers all the bars.
C10_NoPartialResult ==
    /\ pc = "raised" =>
          /\ Last(outcomes).kind = "raised"
          /\ Last(outcomes).result = None
    /\ store = <<>> /\ pc # "idle" =>
          /\ pc = "raised"
          /\ ~loaded
          /\ current_df = <<>>
          /\ strategy = <<>>
          /\ \A k \in 1..Len(outcomes) :
                /\ outcomes[k].kind = "raised"
                /\ outcomes[k].error = "FileNotFoundError"
    /\ (\E key \in DOMAIN strategy : strategy[key] = "raise") =>
          \A k \in 1..Len(outcomes) : outcomes[k].kind = "raised"
    /\ \A k \in 1..Len(outcomes) :
          outcomes[k].kind = "returned" =>
              /\ store # <<>>
              /\ Len(outcomes[k].result[1].equity_curve.timestamps) = Len(store)

\* C10 witness: generate_signal raised on the second bar, after a trade and an
\* EquityPoint had been logged for the first; the call ended without a result
C10_Witness ==
    /\ pc = "raised"
    /\ Last(outcomes).error = "StrategyError"
    /\ Last(outcomes).result = None
    /\ i = 1
    /\ Len(df) = 2
    /\ Len(trades) = 1
    /\ Len(equity_curve) = 1


\* ---- C11
ZeroSummary(summary) ==
    /\ summary.total_trades = 0
    /\ summary.final_balance = initial_capital * Money
    /\ ~summary.sharpe_ratio.computed
    /\ summary.profit_factor.num = 0
    /\ summary.total_return = 0
    /\ summary.total_return_pct.num = 0
    /\ summary.winning_trades = 0
    /\ summary.losing_trades = 0
    /\ summary.win_rate.num = 0
    /\ summary.max_drawdown = 0
    /\ summary.max_drawdown_pct.num = 0
    /\ summary.average_win.num = 0
    /\ summary.average_loss.num = 0
    /\ summary.largest_win = 0
    /\ summary.largest_loss = 0
    /\ summary.total_fees = 0

\* C11: a run that returns without having executed a trade reports
\* total_trades 0, final_balance = initial_capital, sharpe_ratio 0,
\* profit_factor 0 and every other statistic 0, and each of its EquityPoints
\* has balance = equity = initial_capital
C11_ZeroTradeRun ==
    (pc = "returned" /\ Last(outcomes).result[1].trades = <<>>) =>
        LET result == Last(outcomes).result[1]
        IN  /\ ZeroSummary(result.summary)
            /\ Len(result.equity_curve.balance) = Len(df)
            /\ \A k \in 1..Len(result.equity_curve.balance) :
                   /\ result.equity_curve.balance[k] = initial_capital * Money
                   /\ result.equity_curve.equity[k] = initial_capital * Money

\* a run of two bars or more, HOLD on every bar, has returned
C11_Witness ==
    /\ pc = "returned"
    /\ Len(df) >= 2
    /\ Last(outcomes).result[1].trades = <<>>
    /\ Last(outcomes).result[1].signals = <<>>
    /\ Len(Last(outcomes).result[1].equity_curve.equity) = Len(df)

\* ---- C13
\* the EXIT trades of a trade log whose pnl satisfies a condition
Exits(log, Cond(_)) ==
    {k \in 1..Len(log) : log[k].type = "EXIT" /\ Cond(log[k].pnl)}

\* C13: in a returned result total_trades is the number of EXIT trades,
\* winning_trades the number of those with pnl > 0, losing_trades the number
\* with pnl < 0, an EXIT with pnl = 0 is in total_trades only, so
\* winning + losing <= total, and win_rate = winning / total * 100
C13_TradeCounts ==
    pc = "returned" =>
        LET result == Last(outcomes).result[1]
            summary == result.summary
            total == Cardinality(Exits(result.trades, LAMBDA x : TRUE))
            wins == Cardinality(Exits(result.trades, LAMBDA x : x > 0))
            losses == Cardinality(Exits(result.trades, LAMBDA x : x < 0))
            flat == Cardinality(Exits(result.trades, LAMBDA x : x = 0))
        IN  /\ summary.total_trades = total
            /\ summary.winning_trades = wins
            /\ summary.losing_trades = losses
            /\ summary.total_trades
                   = summary.winning_trades + summary.losing_trades + flat
            /\ summary.winning_trades + summary.losing_trades
                   <= summary.total_trades
            /\ total > 0 =>
                   summary.win_rate.num * total = wins * 100 * summary.win_rate.den

\* a run has returned whose only EXIT trade has pnl = 0
C13_Witness ==
    /\ pc = "returned"
    /\ Exits(Last(outcomes).result[1].trades, LAMBDA x : x = 0) # {}
    /\ Last(outcomes).result[1].summary.total_trades = 1
    /\ Last(outcomes).result[1].summary.winning_trades = 0
    /\ Last(outcomes).result[1].summary.losing_trades = 0

\* ---- C12
\* the highest of the first t entries of a series
PeakAt(series, t) ==
    CHOOSE x \in {series[k] : k \in 1..t} : \A k \in 1..t : x >= series[k]

\* C12 as claimed: the drawdowns of the equity curve [100, 120, 90, 110]
\* are [0, 0, -30, -20]
C12_AsClaimed ==
    (ret # None /\ args.function = "_calculate_statistics"
                /\ args.equity = <<100, 120, 90, 110>>) =>
        ret[1].drawdown = <<0, 0, -30, -20>>

\* C12: for any equity curve the reported max_drawdown is the least of
\* equity[t] - max(equity[0..t]) and is never positive, the reported
\* max_drawdown_pct is the absolute value of the least of
\* (equity[t] - peak[t]) / peak[t] * 100 and is never negative, and for
\* [100, 120, 90, 110] the peaks are [100, 120, 120, 120], the drawdowns
\* [0, 0, -30, -10] and max_drawdown_pct is 25
C12_Drawdown ==
    (ret # None /\ args.function = "_calculate_statistics"
                /\ args.equity # <<>>) =>
        LET equity == args.equity
            T == 1..Len(equity)
            depth(t) == PeakAt(equity, t) - equity[t]
            pct == ret[1].max_drawdown_pct
        IN  /\ ret[1].max_drawdown <= 0
            /\ \E t \in T : ret[1].max_drawdown = -depth(t)
            /\ \A t \in T : ret[1].max_drawdown <= -depth(t)
            /\ pct.num >= 0 /\ pct.den > 0
            /\ \E t \in T :
                   pct.num * PeakAt(equity, t) = depth(t) * 100 * pct.den
            /\ \A t \in T :
                   pct.num * PeakAt(equity, t) >= depth(t) * 100 * pct.den
            /\ equity = <<100, 120, 90, 110>> =>
                   /\ ret[1].peak = <<100, 120, 120, 120>>
                   /\ ret[1].drawdown = <<0, 0, -30, -10>>
                   /\ pct.num = 25 * pct.den

\* the statistics of the equity curve [100, 120, 90, 110] have been computed
C12_Witness ==
    /\ ret # None
    /\ args.function = "_calculate_statistics"
    /\ args.equity = <<100, 120, 90, 110>>
    /\ ret[1].max_drawdown = -30

\* ---- C15
\* calculate_buy_and_hold has returned a result for a frame with bars
BuyAndHoldReturned ==
    /\ ret # None
    /\ args.function = "calculate_buy_and_hold"
    /\ args.closes # <<>>

\* C15: compare_with_strategy sets strategy_beats_buy_hold exactly when the
\* strategy's total_return_pct is above the benchmark's and its sharpe_ratio
\* is above the benchmark's (a missing entry counting as 0); a tie on either
\* or a win on one only (10 % against 15 % with Sharpe 0.5 against 0.3) is
\* no win
C15_Outperforms ==
    (ret # None /\ args.function = "compare_with_strategy") =>
        LET summary == IF args.strategy_result = <<>> THEN <<>>
                       ELSE args.strategy_result.summary
            benchmark == args.buy_hold_result
            Entry(of, key) == IF of = <<>> THEN Float(0, 1) ELSE of[key]
            above(key) == FLess(Entry(benchmark, key), Entry(summary, key))
        IN  /\ ret[1].strategy_beats_buy_hold
                   <=> (above("total_return_pct") /\ above("sharpe_ratio"))
            /\ ( /\ Entry(summary, "total_return_pct") = Float(10, 1)
                 /\ Entry(benchmark, "total_return_pct") = Float(15, 1)
                 /\ Entry(summary, "sharpe_ratio") = Float(5, 10)
                 /\ Entry(benchmark, "sharpe_ratio") = Float(3, 10) )
                   => ~ret[1].strategy_beats_buy_hold

\* 10 % and Sharpe 0.5 have been compared with 15 % and Sharpe 0.3
C15_Witness ==
    /\ ret # None
    /\ args.function = "compare_with_strategy"
    /\ args.strategy_result # <<>>
    /\ args.strategy_result.summary # <<>>
    /\ args.buy_hold_result # <<>>
    /\ args.strategy_result.summary.total_return_pct = Float(10, 1)
    /\ args.buy_hold_result.total_return_pct = Float(15, 1)
    /\ args.strategy_result.summary.sharpe_ratio = Float(5, 10)
    /\ args.buy_hold_result.sharpe_ratio = Float(3, 10)
    /\ ~ret[1].strategy_beats_buy_hold

\* ---- C16
\* whether the closes k .. k + n - 1 are all strictly below the running peak
RunBelowPeak(closes, k, n) ==
    \A j \in k..(k + n - 1) : closes[j] < PeakAt(closes, j)

\* the length of the longest run of consecutive closes strictly below the
\* running peak
LongestRunBelowPeak(closes) ==
    CHOOSE n \in 0..Len(closes) :
        /\ \E k \in 1..(Len(closes) - n + 1) : RunBelowPeak(closes, k, n)
        /\ \A longer \in (n + 1)..Len(closes) :
               \A k \in 1..(Len(closes) - longer + 1) :
                   ~RunBelowPeak(closes, k, longer)

\* C16 as claimed: the max_drawdown_duration calculate_buy_and_hold returns is
\* the length of the longest run of consecutive bars whose close is strictly
\* below the running peak close, 0 for strictly increasing closes
C16_AsClaimed ==
    BuyAndHoldReturned =>
        ret[1][1].max_drawdown_duration_hours = LongestRunBelowPeak(args.closes)

\* ---- C17
\* total_return of a returned benchmark
TotalReturn == ret[1][1].total_return

\* C17 as claimed: with no commission and last close = first close the
\* total_return of calculate_buy_and_hold is 0
C17_AsClaimed ==
    (BuyAndHoldReturned /\ args.commission_rate = 0
                        /\ args.closes[1] = Last(args.closes)) =>
        TotalReturn.m = 0

\* C17: calculate_buy_and_hold charges the commission twice at the one rate
\* c, every product, quotient and difference being rounded to a float:
\* btc_amount = initial_capital * (1 - c) / first close, final_value =
\* btc_amount * last close * (1 - c), total_return = final_value -
\* initial_capital; with c = 0 and equal closes the return is 0 up to that
\* rounding, within initial_capital / 2^(Precision - 1), and with a rate
\* c > 0 of the model and equal closes it is negative
C17_CommissionTwice ==
    BuyAndHoldReturned =>
        LET result == ret[1][1]
            capital == Float(args.initial_capital, 1)
            first == Float(args.closes[1], 1)
            last == Float(Last(args.closes), 1)
            c == Float(args.commission_rate, Denom)
            net == FSub(Float(1, 1), c)
            rounding == FDiv(capital, Float(Pow2(Precision - 1), 1))
        IN  /\ result.btc_amount = FDiv(FMul(capital, net), first)
            /\ result.final_value = FMul(FMul(result.btc_amount, last), net)
            /\ result.total_return = FSub(result.final_value, capital)
            /\ (args.commission_rate = 0 /\ first = last) =>
                   /\ ~FLess(rounding, result.total_return)
                   /\ ~FLess(result.total_return, [rounding EXCEPT !.m = -@])
            /\ (args.commission_rate > 0 /\ first = last) =>
                   FLess(result.total_return, Float(0, 1))

\* a benchmark without commission over equal closes has a return that is not 0
C17_Witness ==
    /\ BuyAndHoldReturned
    /\ args.commission_rate = 0
    /\ args.closes[1] = Last(args.closes)
    /\ TotalReturn.m # 0

\* ---- C18
\* the bar a trade is stamped with
BarOf(trade) == df[trade.timestamp]

C18_Ordered ==
    /\ \A k \in 1..Len(equity_curve) :
           equity_curve[k].timestamp = df[k].timestamp
    /\ \A k \in 1..(Len(equity_curve) - 1) :
           equity_curve[k].timestamp <= equity_curve[k + 1].timestamp
    /\ \A k \in 1..(Len(trades) - 1) :
           trades[k].timestamp <= trades[k + 1].timestamp
    /\ \A k \in 1..Len(trades) :
           /\ \E b \in 1..Len(df) : df[b].timestamp = trades[k].timestamp
           /\ trades[k].price
                  = _apply_slippage(BarOf(trades[k]).close, trades[k].side)

C18_Appended ==
    /\ (pc = "loop" /\ i < Len(df) /\ Len(trades') = Len(trades) + 1) =>
           /\ Last(trades').timestamp = df[i + 1].timestamp
           /\ Len(signals') = Len(signals) + 1
           /\ Last(signals').timestamp = df[i + 1].timestamp
           /\ Last(signals').signal = signal'[1]
           /\ Last(trades').price
                  = _apply_slippage(df[i + 1].close, Last(trades').side)
    /\ (pc = "loop" /\ i < Len(df) /\ Len(equity_curve') = Len(equity_curve) + 1) =>
           Last(equity_curve').timestamp = df[i + 1].timestamp
    /\ (pc = "loop" /\ i = Len(df) /\ Len(trades') = Len(trades) + 1) =>
           /\ Last(trades').timestamp = Last(df).timestamp
           /\ Last(trades').price
                  = _apply_slippage(Last(df).close, Last(trades').side)

\* C18: EquityPoints and TradeRecords, the forced close included, are
\* appended in non-decreasing timestamp order, in the order of the bars; a
\* trade of the loop carries the timestamp of the bar on which its signal
\* was generated and is priced from that bar's close, the forced close
\* those of the last bar, and no trade those of a later bar
C18_BarOrder == []C18_Ordered /\ [][C18_Appended]_vars

\* a run over two bars or more has returned with an entry on one bar and
\* the exit on a later one
C18_Witness ==
    /\ pc = "returned"
    /\ Len(trades) >= 2
    /\ trades[1].timestamp < Last(trades).timestamp
    /\ Len(equity_curve) >= 2

\* ---- C19
\* what call t returns when it is the only call, its Strategy answering as
\* it did
ResultAlone(t) ==
    Alone(NoLogs, Started(NotStarted, t), calls[t].answers)

\* C19: when each of two concurrent run_backtest calls runs on its own
\* Backtester instance, then under every interleaving of their steps each
\* call returns the trades, the equity curve and the signals it returns
\* when it runs alone
C19_Isolated ==
    ~shared =>
        \A t \in Threads :
            calls[t].pc = "returned" =>
                /\ calls[t].result[1].trades = ResultAlone(t)[1].trades
                /\ calls[t].result[1].equity_curve
                       = ResultAlone(t)[1].equity_curve
                /\ calls[t].result[1].signals = ResultAlone(t)[1].signals
                /\ calls[t].result = ResultAlone(t)

\* two calls on two instances have returned different results with trades,
\* the one that returned first having started while the other was in its loop
C19_Witness ==
    /\ ~shared
    /\ \A t \in Threads :
           /\ calls[t].pc = "returned"
           /\ calls[t].result[1].trades # <<>>
           /\ Len(calls[t].result[1].equity_curve.equity) >= 2
    /\ calls[1].result[1].trades # calls[2].result[1].trades

\* ---- C20
\* the step is one of call t
StepOf(t) == calls'[t] # calls[t]

C20_OneLog ==
    \A t \in Threads :
        (shared /\ StepOf(t)) =>
            /\ calls[t].pc = "idle" => logs'[1] = NoLogs
            /\ (calls[t].pc = "loop" /\ calls'[t].pc = "loop") =>
                   /\ Len(logs'[1].equity_curve)
                          = Len(logs[1].equity_curve) + 1
                   /\ SubSeq(logs'[1].equity_curve, 1,
                             Len(logs[1].equity_curve))
                          = logs[1].equity_curve
            /\ calls'[t].pc = "returned" =>
                   /\ calls'[t].result[1].trades = logs'[1].trades
                   /\ calls'[t].result[1].signals = logs'[1].signals
                   /\ Len(calls'[t].result[1].equity_curve.equity)
                          = Len(logs'[1].equity_curve)

\* C20: a Backtester instance is not reentrant.  The two calls made on one
\* instance share its logs: the start of either call empties them whatever
\* the other has logged, each bar of either call appends to them, and a call
\* returns what they hold when it returns, so a returned result can hold
\* the other call's entries and miss its own
C20_NotReentrant == [][C20_OneLog]_vars

\* a call on the shared instance has returned an equity curve whose length
\* is not the number of its bars, and trades that are not those of the call
\* when it runs alone
C20_Witness ==
    /\ shared
    /\ \E t \in Threads :
           /\ calls[t].pc = "returned"
           /\ Len(calls[t].result[1].equity_curve.equity) # Len(calls[t].df)
           /\ calls[t].result[1].trades # ResultAlone(t)[1].trades

\* ---- C14
\* C14: benchmark independence.  Two calls made with the same bars, the
\* same initial capital and the same fees, with different strategy ids and
\* whatever signals their Strategies emit, return the same
\* buy_hold_comparison
C14_BenchmarkIndependent ==
    \A a, b \in Threads :
        (calls[a].pc = "returned" /\ calls[b].pc = "returned") =>
            /\ "buy_hold_comparison" \in DOMAIN calls[a].result[1]
            /\ "buy_hold_comparison" \in DOMAIN calls[b].result[1]
            /\ calls[a].result[1].buy_hold_comparison
                   = calls[b].result[1].buy_hold_comparison

\* two calls with different strategy ids have returned, one having traded
\* and the other not
C14_Witness ==
    /\ calls[1].pc = "returned"
    /\ calls[2].pc = "returned"
    /\ calls[1].result[1].trades # <<>>
    /\ calls[2].result[1].trades = <<>>
    /\ calls[1].result[1].summary # calls[2].result[1].summary

\* ---- C21
\* the modes _apply_slippage and _calculate_commission have a branch for
Modes == {"percentage", "fixed"}

\* C21: a Backtester whose commission type or slippage type is neither
\* 'percentage' nor 'fixed' fails at construction: no call of run_backtest
\* enters the loop, returns a result or logs anything with such a mode
C21_AsClaimed ==
    (commission_config.type \notin Modes \/ slippage_config.type \notin Modes)
        => /\ pc = "idle"
           /\ outcomes = <<>>
           /\ trades = <<>>

\* ---- C23
\* the key paths that lead to a value in a config, the empty path included
RECURSIVE Paths(_)
Paths(node) ==
    IF ~node.dict THEN {<<>>}
    ELSE {<<>>} \cup UNION {{<<k>> \o path : path \in Paths(node.items[k])} :
                               k \in DOMAIN node.items}

\* the value a path of Paths(node) leads to
RECURSIVE At(_, _)
At(node, path) ==
    IF path = <<>> THEN node ELSE At(node.items[path[1]], Tail(path))

\* what get(key, Default) is to return on a config
Lookup(node, key) ==
    IF split(key) \in Paths(node) THEN At(node, split(key)) ELSE Default

\* the segments p begin the segments q
Prefix(p, q) == Len(p) <= Len(q) /\ SubSeq(q, 1, Len(p)) = p

\* the set call has been made, and has returned
SetCalled == \E k \in 1..Len(ret) : ret[k].function = "set"
SetReturned == \E k \in 1..Len(ret) : ret[k].function = "set" /\ ~ret[k].raised

\* C23 as claimed: after set(key, value), get(key) returns value and the
\* value of every other key is what it was
C23_AsClaimed ==
    SetCalled =>
        /\ get(args.key, Default) = args.value
        /\ \A other \in Keys \ {args.key} :
               get(other, Default) = Lookup(args.yaml, other)

\* C23: set(key, value) raises, and changes nothing, exactly when a proper
\* prefix of the key leads to a value that is no dict.  After a set that
\* returned, get(key) returns value whether the key is new or existed; a key
\* that continues the key is looked up in value; a key that is a proper
\* prefix of the key leads to a dict; and every other key has the value it
\* had.  get(key, default) returns default whenever a segment of the path is
\* missing, and the value the path leads to otherwise
C23_SetGet ==
    /\ \A n \in 1..Len(ret) :
           ret[n].function = "set" =>
               ret[n].raised =
                   \E m \in 1..(Len(split(args.key)) - 1) :
                       /\ SubSeq(split(args.key), 1, m) \in Paths(args.yaml)
                       /\ ~At(args.yaml, SubSeq(split(args.key), 1, m)).dict
    /\ (SetCalled /\ ~SetReturned) => _config = args.yaml
    /\ SetReturned =>
           /\ get(args.key, Default) = args.value
           /\ \A other \in Keys :
                  IF Prefix(split(args.key), split(other))
                  THEN get(other, Default)
                           = GetFrom(args.value,
                                     SubSeq(split(other),
                                            Len(split(args.key)) + 1,
                                            Len(split(other))),
                                     Default)
                  ELSE IF Prefix(split(other), split(args.key))
                  THEN get(other, Default).dict
                  ELSE get(other, Default) = Lookup(args.yaml, other)
    /\ \A n \in 1..Len(ret) :
           ret[n].function = "get" =>
               ret[n].value = Lookup(IF n = 1 THEN args.yaml ELSE _config,
                                     args.key)

\* a key of two segments that existed has been set and then read back, and
\* another key of the config has kept its value
C23_Witness ==
    /\ Len(ret) = 2
    /\ ret[1].function = "set"
    /\ ~ret[1].raised
    /\ ret[2].function = "get"
    /\ ret[2].value = args.value
    /\ args.key = <<"a", ".", "b">>
    /\ Lookup(args.yaml, args.key) = Scalar("x")
    /\ args.value # Scalar("x")
    /\ get(<<"a", ".", "a">>, Default) = Scalar("y")

\* ---- C24
\* the short average crossed above the long one on the last bar of the view
\* of the last call, and below it
CrossedAbove ==
    /\ current_df.prev.sma_short <= current_df.prev.sma_long
    /\ current_df.current.sma_short > current_df.current.sma_long
CrossedBelow ==
    /\ current_df.prev.sma_short >= current_df.prev.sma_long
    /\ current_df.current.sma_short < current_df.current.sma_long

\* C24: SimpleMovingAverageCrossStrategy.generate_signal, called with no
\* open position, confirmation_bars = 1 and a frame of at least long_period
\* + 1 bars that has the two averages, returns BUY when the short average
\* crosses above the long one on the last bar, SELL when it crosses below,
\* and HOLD otherwise, whatever the calls made before
C24_MaCross ==
    (/\ strategy_id = "simple_ma_cross"
     /\ signal # None
     /\ position = None
     /\ strategy.confirmation_bars = 1
     /\ current_df.len >= strategy.long_period + 1
     /\ current_df.columns) =>
        signal[1] = IF CrossedAbove THEN "BUY"
                    ELSE IF CrossedBelow THEN "SELL"
                    ELSE "HOLD"

\* a call without a position returned BUY for averages that were equal on
\* the bar before
C24_Witness ==
    /\ strategy_id = "simple_ma_cross"
    /\ signal = Some("BUY")
    /\ position = None
    /\ strategy.confirmation_bars = 1
    /\ strategy.cross_direction = "golden"
    /\ current_df.prev.sma_short = current_df.prev.sma_long
    /\ CrossedAbove

\* ---- C26
\* C26: every Strategy registered in StrategyManager returns BUY or SELL
\* only when it is given no open position
C26_AsClaimed ==
    (signal # None /\ signal[1] \in {"BUY", "SELL"}) => position = None

\* ---- C25
\* the size the Risk Sizer computes for an entry signal on a bar
SizeOn(sig, current_bar) ==
    calculate_position_size(sig, account_balance, current_bar.close,
                            calculate_stop_loss(sig, current_bar.close, None))

\* C25: when the Strategy returns BUY or SELL while a position is open and
\* the computed size is > 0, the engine records an ENTRY trade at the bar's
\* slipped close, the new position replaces the open one, no EXIT trade is
\* recorded for the replaced position, and the balance changes by the new
\* entry's commission only: the replaced position's pnl is not booked.
C25_Overwrite ==
    [][(/\ BarWith({"BUY", "SELL"})
        /\ position # None
        /\ SizeOn(signal'[1], df[i + 1]) > 0) =>
          LET t == Last(trades')
          IN  /\ trades' = Append(trades, t)
              /\ t.type = "ENTRY"
              /\ t.side = signal'[1]
              /\ t.timestamp = df[i + 1].timestamp
              /\ t.price = _apply_slippage(df[i + 1].close, signal'[1])
              /\ t.size = SizeOn(signal'[1], df[i + 1])
              /\ Count(trades', "EXIT") = Count(trades, "EXIT")
              /\ position' # None
              /\ OpensPosition(t, position'[1])
              /\ position' # position
              /\ account_balance' = account_balance - t.commission
              /\ t.balance_before = account_balance
              /\ t.balance_after = account_balance']_vars

\* C25 witness: a SHORT entered at the close 100 was replaced at the close 110
\* by a LONG; the loss of the SHORT is not in the balance, which has paid the
\* two commissions only
C25_Witness ==
    /\ pc = "loop"
    /\ i = 2
    /\ df[1].close = 100
    /\ df[2].close = 110
    /\ commission_config.type = "percentage"
    /\ Len(trades) = 2
    /\ trades[1].type = "ENTRY"
    /\ trades[1].side = "SELL"
    /\ trades[2].type = "ENTRY"
    /\ trades[2].side = "BUY"
    /\ position # None
    /\ position[1].side = "LONG"
    /\ account_balance =
           initial_capital * Money - trades[1].commission - trades[2].commission

\* ---- C27
\* the signal log entry of the bar the loop has just handled
LoggedBar ==
    [timestamp |-> df[i + 1].timestamp,
     signal |-> signal'[1],
     price |-> df[i + 1].close]

C27_LogInvariant ==
    /\ \A k \in 1..Len(signals) : signals[k].signal # "HOLD"
    /\ \A k \in 1..(Len(signals) - 1) :
           signals[k].timestamp < signals[k + 1].timestamp
    /\ pc = "loop" => Len(trades) <= Len(signals)
    /\ Len(trades) <= Len(signals) + 1

C27_LogStep ==
    /\ BarWith(Signal \ {"HOLD"}) => signals' = Append(signals, LoggedBar)
    /\ BarWith({"HOLD"}) => signals' = signals
    /\ (pc = "loop" /\ pc' # "loop") => signals' = signals

\* C27: the signal log gets exactly one entry on every bar on which the
\* Strategy returned a non-HOLD signal, with that bar's timestamp and close,
\* whether or not a trade followed, and none on a HOLD bar or at the end of
\* the run; the entries are in bar order, and the TradeRecords never
\* outnumber the logged signals by more than one, the forced close.
C27_SignalLog == []C27_LogInvariant /\ [][C27_LogStep]_vars

\* C27 witness: a run ended with one logged signal and two trades, its entry
\* and the forced close, after a first bar with HOLD
C27_Witness ==
    /\ pc = "returned"
    /\ Len(df) = 2
    /\ Len(signals) = 1
    /\ signals[1].timestamp = 2
    /\ signals[1].price = df[2].close
    /\ Len(trades) = 2
    /\ trades[2].type = "EXIT"

\* ---- C28
\* C28: a signal that cannot be executed leaves the account alone.  On a bar
\* where the Strategy returned BUY or SELL and the Risk Sizer returned a size
\* <= 0, and on a bar where it returned CLOSE_LONG, CLOSE_SHORT or CLOSE_ALL
\* with no position open, no TradeRecord is appended and the position and
\* the balance are unchanged.
C28_NoOp ==
    [][(\/ /\ BarWith({"BUY", "SELL"})
           /\ SizeOn(signal'[1], df[i + 1]) <= 0
        \/ /\ BarWith({"CLOSE_LONG", "CLOSE_SHORT", "CLOSE_ALL"})
           /\ position = None) =>
          /\ trades' = trades
          /\ position' = position
          /\ account_balance' = account_balance]_vars

\* C28 witness: with a size of 0 the Strategy returned SELL on the first bar
\* and CLOSE_SHORT on the second; both are logged, and there is no trade, no
\* position and the initial balance
C28_Witness ==
    /\ pc = "loop"
    /\ i = 2
    /\ risk_config.position_sizing.risk_per_trade = 0
    /\ Len(signals) = 2
    /\ signals[1].signal = "SELL"
    /\ signals[2].signal = "CLOSE_SHORT"
    /\ trades = <<>>
    /\ position = None
    /\ account_balance = initial_capital * Money

\* ---- C30
\* C30: an exit signal closes the open position whatever its side.  On a bar
\* where the Strategy returned CLOSE_LONG, CLOSE_SHORT or CLOSE_ALL while a
\* position is open, the EXIT trade of _close_position for that position at
\* the bar's close is appended, the balance becomes its balance_after and no
\* position is left: the three signals act alike.
C30_AnyExitCloses ==
    [][(/\ BarWith({"CLOSE_LONG", "CLOSE_SHORT", "CLOSE_ALL"})
        /\ position # None) =>
          LET close_result ==
                  _close_position(position[1], df[i + 1].close,
                                  df[i + 1].timestamp, account_balance)
          IN  /\ trades' = Append(trades, close_result.trade[1])
              /\ ClosesPosition(Last(trades'), position[1])
              /\ account_balance' = close_result.new_balance
              /\ position' = None]_vars

\* C30 witness: CLOSE_LONG has just closed a SHORT position
C30_Witness ==
    /\ pc = "loop"
    /\ i = 2
    /\ signal = <<"CLOSE_LONG">>
    /\ Len(trades) = 2
    /\ trades[1].type = "ENTRY"
    /\ trades[1].side = "SELL"
    /\ trades[2].type = "EXIT"
    /\ trades[2].side = "BUY"
    /\ trades[2].timestamp = 2
    /\ position = None
    /\ account_balance = trades[2].balance_after

\* ---- C29
\* C29 as claimed: the final_balance of a returned result with a trade is the
\* balance_after of its last TradeRecord
C29_AsClaimed ==
    \A k \in 1..Len(outcomes) :
        (outcomes[k].kind = "returned" /\ outcomes[k].result[1].trades # <<>>) =>
            outcomes[k].result[1].summary.final_balance =
                Last(outcomes[k].result[1].trades).balance_after

\* ---- C22
\* a quotient of the statistics that is a number
Defined(q) == q.den # 0

\* a quotient of the statistics, or a float of the benchmark, that is 0
IsZero(x) == IF "den" \in DOMAIN x THEN Defined(x) /\ x.num = 0
             ELSE Finite(x) /\ x.m = 0

\* C22 as claimed: every ratio and average of _calculate_statistics and of
\* calculate_buy_and_hold is a number, and is 0 when its denominator is zero
\* or its input set is empty: no losing trades, no winning trades, zero
\* return variance, initial_capital = 0, a running equity peak of 0, a first
\* close of 0
C22_AsClaimed ==
    ret # None =>
        IF args.function = "_calculate_statistics"
        THEN LET summary == ret[1]
                 equity == [k \in 1..Len(args.gains) |->
                               args.initial_capital * Money
                                   + args.gains[k] * Money]
             IN  /\ \A key \in {"total_return_pct", "win_rate", "profit_factor",
                                 "average_win", "average_loss",
                                 "max_drawdown_pct"} : Defined(summary[key])
                 /\ args.initial_capital = 0 => IsZero(summary.total_return_pct)
                 /\ cummax(equity)[Len(equity)] = 0 =>
                        IsZero(summary.max_drawdown_pct)
                 /\ summary.losing_trades = 0 =>
                        IsZero(summary.profit_factor) /\ IsZero(summary.average_loss)
                 /\ summary.winning_trades = 0 => IsZero(summary.average_win)
                 /\ summary.total_trades = 0 => IsZero(summary.win_rate)
                 /\ ~returns_std_positive(equity) => ~summary.sharpe_ratio.computed
        ELSE LET result == ret[1][1]
             IN  /\ \A key \in {"btc_amount", "final_value", "total_return",
                                 "total_return_pct", "max_drawdown_pct"} :
                        Finite(result[key])
                 /\ args.initial_capital = 0 => IsZero(result.total_return_pct)
                 /\ args.closes[1] = 0 => IsZero(result.btc_amount)

====
